---- MODULE Spec2Model ----
(***************************************************************************)
(* The compact-diagram pipeline of FossFLOW's AI feature: the schema       *)
(* validator (services/aiService.ts) and the diagram normalizer with its   *)
(* icon resolver (services/aiDiagramConverter.ts).                         *)
(*                                                                         *)
(* Both work on untyped data that comes out of JSON.parse, so the model    *)
(* carries JavaScript values and the coercions String(), Number(), trim()  *)
(* and toLowerCase() the code applies to them.  Strings are sequences of   *)
(* one-character strings; a number is kept as twice its value so that a    *)
(* half such as 0.5 or 1.5 is representable.                               *)
(***************************************************************************)
EXTENDS Integers, Sequences, FiniteSets, TLC

VARIABLES
  raw,            \* the payload handed to the validator and the normalizer
  existingIcons,  \* the host's icon list (prop existingIcons of the dialog)
  verdict,        \* outcome of validateAICompactDiagram(raw)
  normalized,     \* outcome of normalizeCompactDiagram(raw, existingIcons)
  renormalized    \* outcome of normalizeCompactDiagram(normalized, existingIcons)

\* The state of the dialog (AIGenerateDialog.tsx)
VARIABLES
  activeTab, provider, config, prompt, isGenerating, error, generatedDiagram,
  preview, jsonInput, jsonError,
  requests,       \* the calls of generateDiagramWithAI that have not returned
  applied,        \* what was last handed to onGenerate
  storedConfig    \* localStorage item fossflow-ai-config

pipelineVars == <<raw, existingIcons, verdict, normalized, renormalized>>

dialogVars ==
  <<activeTab, provider, config, prompt, isGenerating, error, generatedDiagram,
    preview, jsonInput, jsonError, requests, applied, storedConfig>>

vars == <<pipelineVars, dialogVars>>

----------------------------------------------------------------------------
(* JavaScript values.  k is the kind; n is twice the numeric value (or 0/1 *)
(* for a boolean); s the characters of a string; a the elements of an      *)
(* array or the property values of an object; keys the property names of   *)
(* an object, in step with a.                                              *)

JsValue(kind, num, str, elems, names) ==
  [k |-> kind, n |-> num, s |-> str, a |-> elems, keys |-> names]

Undefined == JsValue("undefined", 0, <<>>, <<>>, <<>>)
Null == JsValue("null", 0, <<>>, <<>>, <<>>)
Bool(b) == JsValue("boolean", IF b THEN 1 ELSE 0, <<>>, <<>>, <<>>)
Num(twice) == JsValue("number", twice, <<>>, <<>>, <<>>)
Whole(i) == Num(2 * i)
NaN == JsValue("NaN", 0, <<>>, <<>>, <<>>)
Str(chars) == JsValue("string", 0, chars, <<>>, <<>>)
Arr(elems) == JsValue("array", 0, <<>>, elems, <<>>)
Obj(names, values) == JsValue("object", 0, <<>>, values, names)

\* An uncaught TypeError, as the outcome of a call.
TypeError == JsValue("TypeError", 0, <<>>, <<>>, <<>>)

isArray(v) == v.k = "array"
isString(v) == v.k = "string"
isNumberType(v) == v.k \in {"number", "NaN"}
isFinite(v) == v.k = "number"
isObjectType(v) == v.k \in {"object", "array", "null"}

\* value.length of an array or a string
length(v) == IF isArray(v) THEN Len(v.a) ELSE Len(v.s)

\* array[i], 0-based; undefined past the end
At(v, i) == IF isArray(v) /\ i < Len(v.a) THEN v.a[i + 1] ELSE Undefined

\* object.name (and object?.name): undefined unless an own property
Get(v, name) ==
  IF v.k = "object" /\ \E i \in 1..Len(v.keys) : v.keys[i] = name
  THEN v.a[CHOOSE i \in 1..Len(v.keys) : v.keys[i] = name]
  ELSE Undefined

\* JavaScript truthiness
truthy(v) ==
  CASE v.k \in {"undefined", "null", "NaN"} -> FALSE
    [] v.k = "boolean" -> v.n = 1
    [] v.k = "number" -> v.n # 0
    [] v.k = "string" -> v.s # <<>>
    [] OTHER -> TRUE

----------------------------------------------------------------------------
(* JavaScript evaluates the arguments of a call once, before the call:     *)
(* CallN(F, a, ...) is F applied to the values of its arguments.           *)

Call1(F(_), a) == CHOOSE r \in {F(x) : x \in {a}} : TRUE
Call2(F(_, _), a, b) == CHOOSE r \in {F(x, y) : x \in {a}, y \in {b}} : TRUE
Call3(F(_, _, _), a, b, c) ==
  CHOOSE r \in {F(x, y, z) : x \in {a}, y \in {b}, z \in {c}} : TRUE

----------------------------------------------------------------------------
(* String primitives *)

WhiteSpace == {" ", "\t", "\n"}
Separators == {"-", "_"}

RECURSIVE trimStart(_)
trimStart(s) ==
  IF s # <<>> /\ Head(s) \in WhiteSpace THEN trimStart(Tail(s)) ELSE s

RECURSIVE trimEnd(_)
trimEnd(s) ==
  IF s # <<>> /\ s[Len(s)] \in WhiteSpace
  THEN trimEnd(SubSeq(s, 1, Len(s) - 1))
  ELSE s

trim(str) ==
  LET trimmed(s) == trimEnd(trimStart(s))
  IN Call1(trimmed, str)

UpperCase ==
  <<"A","B","C","D","E","F","G","H","I","J","K","L","M",
    "N","O","P","Q","R","S","T","U","V","W","X","Y","Z">>
LowerCase ==
  <<"a","b","c","d","e","f","g","h","i","j","k","l","m",
    "n","o","p","q","r","s","t","u","v","w","x","y","z">>

toLowerCaseChar(c) ==
  IF \E i \in 1..Len(UpperCase) : UpperCase[i] = c
  THEN LowerCase[CHOOSE i \in 1..Len(UpperCase) : UpperCase[i] = c]
  ELSE c

toLowerCase(str) ==
  LET lowered(s) == [i \in 1..Len(s) |-> toLowerCaseChar(s[i])]
  IN Call1(lowered, str)

\* s.replace(/[class]+/g, with): every maximal run of class characters
RECURSIVE replaceRunsFrom(_, _, _, _)
replaceRunsFrom(s, i, class, with) ==
  IF i > Len(s) THEN <<>>
  ELSE IF s[i] \in class
  THEN IF i < Len(s) /\ s[i + 1] \in class
       THEN replaceRunsFrom(s, i + 1, class, with)
       ELSE with \o replaceRunsFrom(s, i + 1, class, with)
  ELSE <<s[i]>> \o replaceRunsFrom(s, i + 1, class, with)

replaceRuns(str, class, with) ==
  LET replaced(s) == replaceRunsFrom(s, 1, class, with)
  IN Call1(replaced, str)

\* s.replace(/c/g, with): every occurrence of one character
RECURSIVE replaceAllFrom(_, _, _, _)
replaceAllFrom(s, i, c, with) ==
  IF i > Len(s) THEN <<>>
  ELSE (IF s[i] = c THEN with ELSE <<s[i]>>) \o replaceAllFrom(s, i + 1, c, with)

replaceAll(str, c, with) ==
  LET replaced(s) == replaceAllFrom(s, 1, c, with)
  IN Call1(replaced, str)

Digits == <<"0","1","2","3","4","5","6","7","8","9">>
isDigit(c) == \E i \in 1..Len(Digits) : Digits[i] = c
digitValue(c) == (CHOOSE i \in 1..Len(Digits) : Digits[i] = c) - 1

RECURSIVE natToString(_)
natToString(m) ==
  IF m < 10 THEN <<Digits[m + 1]>>
  ELSE natToString(m \div 10) \o <<Digits[(m % 10) + 1]>>

\* String(number) for a number kept as twice its value
numberToString(twice) ==
  LET abs == IF twice < 0 THEN -twice ELSE twice
      body == natToString(abs \div 2)
              \o (IF abs % 2 = 1 THEN <<".", "5">> ELSE <<>>)
  IN IF twice < 0 THEN <<"-">> \o body ELSE body

RECURSIVE digitsToNat(_)
digitsToNat(s) ==
  IF s = <<>> THEN 0
  ELSE digitsToNat(SubSeq(s, 1, Len(s) - 1)) * 10 + digitValue(s[Len(s)])

\* Number(string): decimal literals with an optional sign and an optional
\* fraction of .0 or .5 (all a number kept in halves can hold); a blank
\* string is 0 and anything else is NaN.
stringToNumberOf(t) ==
  LET signed == t # <<>> /\ Head(t) \in {"-", "+"}
      u == IF signed THEN Tail(t) ELSE t
      hasDot == \E i \in 1..Len(u) : u[i] = "."
      dot == IF hasDot THEN CHOOSE i \in 1..Len(u) : u[i] = "." /\ \A j \in 1..(i - 1) : u[j] # "."
             ELSE Len(u) + 1
      whole == SubSeq(u, 1, dot - 1)
      frac == SubSeq(u, dot + 1, Len(u))
      wellFormed == /\ \A i \in 1..Len(whole) : isDigit(whole[i])
                    /\ frac \in {<<>>, <<"0">>, <<"5">>}
                    /\ (whole # <<>> \/ frac # <<>>)
      magnitude == 2 * digitsToNat(whole) + (IF frac = <<"5">> THEN 1 ELSE 0)
  IN IF t = <<>> THEN Num(0)
     ELSE IF wellFormed
     THEN Num(IF Head(t) = "-" THEN -magnitude ELSE magnitude)
     ELSE NaN

stringToNumber(s) == Call1(stringToNumberOf, trim(s))

----------------------------------------------------------------------------
(* Coercions.  ToPrimitive of an object looks up toString and valueOf: an  *)
(* own property of that name in parsed JSON is never callable, so an       *)
(* object with an own "toString" has no primitive value and both String()  *)
(* and Number() throw a TypeError; an array is converted through join(),   *)
(* which converts its elements.                                            *)

RECURSIVE toPrimitiveThrows(_)
toPrimitiveThrows(v) ==
  CASE v.k = "object" -> \E i \in 1..Len(v.keys) : v.keys[i] = "toString"
    [] v.k = "array" -> \E i \in 1..Len(v.a) :
                          /\ v.a[i].k \notin {"null", "undefined"}
                          /\ toPrimitiveThrows(v.a[i])
    [] OTHER -> FALSE

ObjectObject == <<"[","o","b","j","e","c","t"," ","O","b","j","e","c","t","]">>

RECURSIVE StringOf(_)
RECURSIVE join(_)
StringOf(v) ==
  CASE v.k = "string" -> v.s
    [] v.k = "undefined" -> <<"u","n","d","e","f","i","n","e","d">>
    [] v.k = "null" -> <<"n","u","l","l">>
    [] v.k = "boolean" -> IF v.n = 1 THEN <<"t","r","u","e">>
                                     ELSE <<"f","a","l","s","e">>
    [] v.k = "number" -> numberToString(v.n)
    [] v.k = "NaN" -> <<"N","a","N">>
    [] v.k = "array" -> join(v.a)
    [] OTHER -> ObjectObject

\* Array.prototype.join(","): null and undefined elements are empty
join(elems) ==
  IF elems = <<>> THEN <<>>
  ELSE LET first == IF Head(elems).k \in {"null", "undefined"} THEN <<>>
                    ELSE StringOf(Head(elems))
       IN IF Len(elems) = 1 THEN first
          ELSE first \o <<",">> \o join(Tail(elems))

String(value) == Call1(StringOf, value)

NumberOf(v) ==
  CASE v.k \in {"number", "NaN"} -> v
    [] v.k = "undefined" -> NaN
    [] v.k = "null" -> Num(0)
    [] v.k = "boolean" -> Num(2 * v.n)
    [] v.k = "string" -> stringToNumber(v.s)
    [] v.k = "array" -> stringToNumber(join(v.a))
    [] OTHER -> NaN

Number(value) == Call1(NumberOf, value)

\* Math.round: to the nearest integer, a half goes up
round(value) ==
  LET rounded(v) == Num(2 * ((v.n + 1) \div 2))
  IN Call1(rounded, value)

----------------------------------------------------------------------------
(* Icon catalog (aiService.ts) and legacy aliases (aiDiagramConverter.ts) *)

AVAILABLE_ICON_IDS ==
  {
    <<"b","l","o","c","k">>,
    <<"c","a","c","h","e">>,
    <<"c","a","r","d","t","e","r","m","i","n","a","l">>,
    <<"c","l","o","u","d">>,
    <<"c","r","o","n","j","o","b">>,
    <<"c","u","b","e">>,
    <<"d","e","s","k","t","o","p">>,
    <<"d","i","a","m","o","n","d">>,
    <<"d","n","s">>,
    <<"d","o","c","u","m","e","n","t">>,
    <<"f","i","r","e","w","a","l","l">>,
    <<"f","u","n","c","t","i","o","n","-","m","o","d","u","l","e">>,
    <<"i","m","a","g","e">>,
    <<"l","a","p","t","o","p">>,
    <<"l","o","a","d","b","a","l","a","n","c","e","r">>,
    <<"l","o","c","k">>,
    <<"m","a","i","l">>,
    <<"m","a","i","l","m","u","l","t","i","p","l","e">>,
    <<"m","o","b","i","l","e","d","e","v","i","c","e">>,
    <<"o","f","f","i","c","e">>,
    <<"p","a","c","k","a","g","e","-","m","o","d","u","l","e">>,
    <<"p","a","y","m","e","n","t","c","a","r","d">>,
    <<"p","l","a","n","e">>,
    <<"p","r","i","n","t","e","r">>,
    <<"p","y","r","a","m","i","d">>,
    <<"q","u","e","u","e">>,
    <<"r","o","u","t","e","r">>,
    <<"s","e","r","v","e","r">>,
    <<"s","p","e","e","c","h">>,
    <<"s","p","h","e","r","e">>,
    <<"s","t","o","r","a","g","e">>,
    <<"s","w","i","t","c","h","-","m","o","d","u","l","e">>,
    <<"t","o","w","e","r">>,
    <<"t","r","u","c","k","-","2">>,
    <<"t","r","u","c","k">>,
    <<"u","s","e","r">>,
    <<"v","m">>
  }
LEGACY_ICON_MAP ==
  <<
    <<<<"p","e","r","s","o","n">>, <<"u","s","e","r">>>>,
    <<<<"w","e","b","_","a","p","p">>, <<"d","e","s","k","t","o","p">>>>,
    <<<<"w","e","b","a","p","p">>, <<"d","e","s","k","t","o","p">>>>,
    <<<<"a","p","i">>, <<"s","e","r","v","e","r">>>>,
    <<<<"l","o","a","d","_","b","a","l","a","n","c","e","r">>, <<"l","o","a","d","b","a","l","a","n","c","e","r">>>>,
    <<<<"l","o","a","d","b","a","l","a","n","c","e","r">>, <<"l","o","a","d","b","a","l","a","n","c","e","r">>>>,
    <<<<"m","i","c","r","o","s","e","r","v","i","c","e">>, <<"c","u","b","e">>>>,
    <<<<"r","e","d","i","s">>, <<"c","a","c","h","e">>>>,
    <<<<"a","u","t","h","e","n","t","i","c","a","t","i","o","n">>, <<"l","o","c","k">>>>,
    <<<<"s","h","i","e","l","d">>, <<"f","i","r","e","w","a","l","l">>>>,
    <<<<"g","a","t","e","w","a","y">>, <<"r","o","u","t","e","r">>>>,
    <<<<"b","a","n","k">>, <<"p","a","y","m","e","n","t","c","a","r","d">>>>,
    <<<<"d","a","t","a","b","a","s","e">>, <<"s","t","o","r","a","g","e">>>>,
    <<<<"n","o","t","i","f","i","c","a","t","i","o","n">>, <<"m","a","i","l">>>>,
    <<<<"m","o","n","i","t","o","r","i","n","g">>, <<"d","e","s","k","t","o","p">>>>,
    <<<<"c","d","n">>, <<"c","l","o","u","d">>>>,
    <<<<"m","o","b","i","l","e">>, <<"m","o","b","i","l","e","d","e","v","i","c","e">>>>,
    <<<<"b","a","c","k","u","p">>, <<"s","t","o","r","a","g","e">>>>,
    <<<<"a","n","a","l","y","t","i","c","s">>, <<"d","i","a","m","o","n","d">>>>,
    <<<<"l","o","g","s">>, <<"d","o","c","u","m","e","n","t">>>>
  >>


DEFAULT_COMPACT_META ==
  Obj(<<"f", "v">>, <<Str(<<"c","o","m","p","a","c","t">>), Str(<<"1",".","0">>)>>)

Block == <<"b","l","o","c","k">>
Untitled == <<"U","n","t","i","t","l","e","d">>

\* LEGACY_ICON_MAP[key], with <<>> for undefined.  (A key such as
\* "constructor" finds an inherited, non-string value instead; iconIds.has
\* is false for it, as it is for undefined.)
legacyLookup(key) ==
  IF \E i \in 1..Len(LEGACY_ICON_MAP) : LEGACY_ICON_MAP[i][1] = key
  THEN LEGACY_ICON_MAP[CHOOSE i \in 1..Len(LEGACY_ICON_MAP) : LEGACY_ICON_MAP[i][1] = key][2]
  ELSE <<>>

----------------------------------------------------------------------------------------------------------------------------------------
(* aiDiagramConverter.ts *)

toSafeString(value) ==
  LET safe(v) == IF isString(v) THEN v.s
                 ELSE IF v.k \in {"null", "undefined"} THEN <<>>
                 ELSE String(v)
  IN Call1(safe, value)

\* toSafeString(value) ends in a TypeError instead of a string
toSafeStringThrows(value) ==
  value.k \notin {"string", "null", "undefined"} /\ toPrimitiveThrows(value)

buildIconIdSet(icons) ==
  AVAILABLE_ICON_IDS \cup
    (IF isArray(icons)
     THEN {String(Get(icons.a[i], "id")) :
             i \in {j \in 1..Len(icons.a) : truthy(Get(icons.a[j], "id"))}}
     ELSE {})

\* resolveIconId with the hyphenated candidate returned unchecked
resolveIconIdUnchecked(rawId, iconIds) ==
  LET normalizedKey == replaceRuns(rawId, WhiteSpace \cup {"-"}, <<"_">>)
      mapped == IF legacyLookup(normalizedKey) # <<>>
                THEN legacyLookup(normalizedKey)
                ELSE legacyLookup(rawId)
  IN IF rawId = <<>> THEN Block
     ELSE IF rawId \in iconIds THEN rawId
     ELSE IF mapped # <<>> /\ mapped \in iconIds THEN mapped
     ELSE replaceAll(rawId, "_", <<"-">>)

\* resolveIconId with the alias table consulted before the known icons
resolveIconIdAliasFirst(rawId, iconIds) ==
  LET normalizedKey == replaceRuns(rawId, WhiteSpace \cup {"-"}, <<"_">>)
      mapped == IF legacyLookup(normalizedKey) # <<>>
                THEN legacyLookup(normalizedKey)
                ELSE legacyLookup(rawId)
      hyphenCandidate == replaceAll(rawId, "_", <<"-">>)
      compactCandidate == replaceRuns(rawId, WhiteSpace \cup Separators, <<>>)
  IN IF rawId = <<>> THEN Block
     ELSE IF mapped # <<>> /\ mapped \in iconIds THEN mapped
     ELSE IF rawId \in iconIds THEN rawId
     ELSE IF hyphenCandidate \in iconIds THEN hyphenCandidate
     ELSE IF compactCandidate \in iconIds THEN compactCandidate
     ELSE Block

\* The body of normalizeIconId once `raw` is computed
resolveIconId(rawId, iconIds) ==
  LET normalizedKey == replaceRuns(rawId, WhiteSpace \cup {"-"}, <<"_">>)
      mapped == IF legacyLookup(normalizedKey) # <<>>
                THEN legacyLookup(normalizedKey)
                ELSE legacyLookup(rawId)
      hyphenCandidate == replaceAll(rawId, "_", <<"-">>)
      compactCandidate == replaceRuns(rawId, WhiteSpace \cup Separators, <<>>)
  IN IF rawId = <<>> THEN Block
     ELSE IF rawId \in iconIds THEN rawId
     ELSE IF mapped # <<>> /\ mapped \in iconIds THEN mapped
     ELSE IF hyphenCandidate \in iconIds THEN hyphenCandidate
     ELSE IF compactCandidate \in iconIds THEN compactCandidate
     ELSE Block

normalizeIconId(iconId, iconIds) ==
  Call2(resolveIconId, toLowerCase(trim(toSafeString(iconId))), iconIds)

spacing == 4
minColumns == 4

\* Math.ceil(Math.sqrt(n)) for n >= 0
ceilSqrt(n) == CHOOSE c \in 0..n : c * c >= n /\ (c = 0 \/ (c - 1) * (c - 1) < n)

layoutColumns(itemCount) ==
  IF ceilSqrt(itemCount) > minColumns THEN ceilSqrt(itemCount) ELSE minColumns

\* The cell of the placed-th item laid out
gridPosition(index, placed, columns) ==
  Arr(<<Whole(index), Whole((placed % columns) * spacing),
        Whole((placed \div columns) * spacing)>>)

\* The for loop of autoLayoutPositions from `index` on, `placed` cells used
RECURSIVE autoLayoutFrom(_, _, _, _)
autoLayoutFrom(index, placed, itemCount, usedIndices) ==
  IF index >= itemCount THEN <<>>
  ELSE IF 2 * index \in usedIndices
  THEN autoLayoutFrom(index + 1, placed, itemCount, usedIndices)
  ELSE <<gridPosition(index, placed, layoutColumns(itemCount))>>
       \o autoLayoutFrom(index + 1, placed + 1, itemCount, usedIndices)

\* autoLayoutPositions without the usedIndices.has(index) test
autoLayoutEveryItem(itemCount, usedIndices) ==
  IF itemCount <= 0 THEN <<>>
  ELSE autoLayoutFrom(0, 0, itemCount, {})

\* autoLayoutPositions with the cell taken from the item index, so that an
\* item placed explicitly uses up a cell
autoLayoutCellPerIndex(itemCount, usedIndices) ==
  LET free == SelectSeq([i \in 1..itemCount |-> i - 1],
                        LAMBDA index : 2 * index \notin usedIndices)
  IN [k \in 1..Len(free) |-> gridPosition(free[k], free[k], layoutColumns(itemCount))]

\* autoLayoutPositions with the row taken from rows one cell longer than
\* the columns wrap at
autoLayoutLongRows(itemCount, usedIndices) ==
  LET free == SelectSeq([i \in 1..itemCount |-> i - 1],
                        LAMBDA index : 2 * index \notin usedIndices)
      columns == layoutColumns(itemCount)
  IN [k \in 1..Len(free) |->
        Arr(<<Whole(free[k]), Whole(((k - 1) % columns) * spacing),
              Whole(((k - 1) \div (columns + 1)) * spacing)>>)]

autoLayoutPositions(itemCount, usedIndices) ==
  IF itemCount <= 0 THEN <<>>
  ELSE autoLayoutFrom(0, 0, itemCount, usedIndices)

\* positionSkipped with itemIndex > itemCount for itemIndex >= itemCount
positionSkippedOffByOne(pos, itemCount, usedIndices) ==
  LET itemIndex == Number(At(pos, 0))
      x == Number(At(pos, 1))
      y == Number(At(pos, 2))
  IN \/ ~isArray(pos) \/ length(pos) < 3
     \/ ~isFinite(itemIndex) \/ ~isFinite(x) \/ ~isFinite(y)
     \/ itemIndex.n < 0 \/ itemIndex.n > 2 * itemCount
     \/ itemIndex.n \in usedIndices

\* positionSkipped without the usedIndices.has(itemIndex) test
positionSkippedNoDedup(pos, itemCount, usedIndices) ==
  LET itemIndex == Number(At(pos, 0))
      x == Number(At(pos, 1))
      y == Number(At(pos, 2))
  IN \/ ~isArray(pos) \/ length(pos) < 3
     \/ ~isFinite(itemIndex) \/ ~isFinite(x) \/ ~isFinite(y)
     \/ itemIndex.n < 0 \/ itemIndex.n >= 2 * itemCount

\* The three `continue` conditions of the position loop
positionSkipped(pos, itemCount, usedIndices) ==
  LET itemIndex == Number(At(pos, 0))
      x == Number(At(pos, 1))
      y == Number(At(pos, 2))
  IN \/ ~isArray(pos) \/ length(pos) < 3
     \/ ~isFinite(itemIndex) \/ ~isFinite(x) \/ ~isFinite(y)
     \/ itemIndex.n < 0 \/ itemIndex.n >= 2 * itemCount
     \/ itemIndex.n \in usedIndices

\* positionStep with a later entry for a placed item replacing the earlier one
positionStepLastWins(pos, itemCount, acc) ==
  LET entry == Arr(<<Number(At(pos, 0)), round(Number(At(pos, 1))),
                     round(Number(At(pos, 2)))>>)
  IN IF positionSkippedNoDedup(pos, itemCount, acc.usedIndices) THEN acc
     ELSE IF Number(At(pos, 0)).n \in acc.usedIndices
     THEN [positions |-> [k \in 1..Len(acc.positions) |->
                            IF acc.positions[k].a[1] = Number(At(pos, 0))
                            THEN entry ELSE acc.positions[k]],
           usedIndices |-> acc.usedIndices]
     ELSE [positions |-> Append(acc.positions, entry),
           usedIndices |-> acc.usedIndices \cup {Number(At(pos, 0)).n}]

\* One turn of the position loop on entry `pos`: acc = [positions, usedIndices]
positionStep(pos, itemCount, acc) ==
  IF positionSkipped(pos, itemCount, acc.usedIndices) THEN acc
  ELSE [positions |-> Append(acc.positions,
                        Arr(<<Number(At(pos, 0)), round(Number(At(pos, 1))),
                              round(Number(At(pos, 2)))>>)),
        usedIndices |-> acc.usedIndices \cup {Number(At(pos, 0)).n}]

\* The position loop over rawPositions[i..]
RECURSIVE positionLoop(_, _, _, _)
positionLoop(rawPositions, i, itemCount, acc) ==
  IF i > Len(rawPositions) THEN acc
  ELSE LET rest(next) == positionLoop(rawPositions, i + 1, itemCount, next)
       IN Call1(rest, positionStep(rawPositions[i], itemCount, acc))

\* The `continue` conditions of the connection loop
connectionSkipped(conn, itemCount) ==
  LET fromIndex == Number(At(conn, 0))
      toIndex == Number(At(conn, 1))
  IN \/ ~isArray(conn) \/ length(conn) < 2
     \/ ~isFinite(fromIndex) \/ ~isFinite(toIndex)
     \/ fromIndex.n < 0 \/ fromIndex.n >= 2 * itemCount
     \/ toIndex.n < 0 \/ toIndex.n >= 2 * itemCount

\* The connection loop over rawConnections[i..]
RECURSIVE connectionLoop(_, _, _)
connectionLoop(rawConnections, i, itemCount) ==
  IF i > Len(rawConnections) THEN <<>>
  ELSE IF connectionSkipped(rawConnections[i], itemCount)
  THEN connectionLoop(rawConnections, i + 1, itemCount)
  ELSE <<Arr(<<Number(At(rawConnections[i], 0)), Number(At(rawConnections[i], 1))>>)>>
       \o connectionLoop(rawConnections, i + 1, itemCount)

rawPositionsOf(view) ==
  LET rawView == IF isArray(view) THEN view ELSE Arr(<<>>)
  IN IF isArray(At(rawView, 0)) THEN At(rawView, 0).a ELSE <<>>

rawConnectionsOf(view) ==
  LET rawView == IF isArray(view) THEN view ELSE Arr(<<>>)
  IN IF isArray(At(rawView, 1)) THEN At(rawView, 1).a ELSE <<>>

\* normalizeView from line 106 on
normalizeParts(rawPositions, rawConnections, itemCount, ensureAllItems) ==
  LET withAuto(explicit) ==
        IF ensureAllItems
        THEN explicit.positions \o autoLayoutPositions(itemCount, explicit.usedIndices)
        ELSE explicit.positions
      positions == Call1(withAuto, positionLoop(rawPositions, 1, itemCount,
                                     [positions |-> <<>>, usedIndices |-> {}]))
      connections == connectionLoop(rawConnections, 1, itemCount)
  IN Arr(<<Arr(positions), Arr(connections)>>)

normalizeView(view, itemCount, ensureAllItems) ==
  LET parts(rawPositions, rawConnections, count) ==
        normalizeParts(rawPositions, rawConnections, count, ensureAllItems)
  IN Call3(parts, rawPositionsOf(view), rawConnectionsOf(view), itemCount)

\* A Number() call of normalizeView ends in a TypeError
normalizeViewThrows(view) ==
  \/ \E i \in 1..Len(rawPositionsOf(view)) :
       \E pos \in {rawPositionsOf(view)[i]} :
          isArray(pos) /\ length(pos) >= 3
          /\ \E j \in 0..2 : toPrimitiveThrows(At(pos, j))
  \/ \E i \in 1..Len(rawConnectionsOf(view)) :
       \E conn \in {rawConnectionsOf(view)[i]} :
          isArray(conn) /\ length(conn) >= 2
          /\ \E j \in 0..1 : toPrimitiveThrows(At(conn, j))

\* The callback of rawItems.map
normalizeItem(item, index, iconIds) ==
  LET rawItem == IF isArray(item) THEN item ELSE Arr(<<>>)
      orDefault(trimmed) == IF trimmed # <<>> THEN trimmed
                            ELSE <<"I","t","e","m"," ">> \o natToString(index + 1)
      name == Call1(orDefault, trim(toSafeString(At(rawItem, 0))))
      icon == normalizeIconId(Str(toSafeString(At(rawItem, 1))), iconIds)
      description == toSafeString(At(rawItem, 2))
  IN Arr(<<Str(name), Str(icon), Str(description)>>)

normalizeItemThrows(item) ==
  isArray(item) /\ \E j \in 0..2 : toSafeStringThrows(At(item, j))

\* mapItems with the entries that are not arrays filtered out first
mapArrayItems(rawItems, iconIds) ==
  LET arrays == SelectSeq(rawItems, isArray)
  IN [i \in 1..Len(arrays) |-> normalizeItem(arrays[i], i - 1, iconIds)]

\* rawItems.map(...): element i of the result comes from element i
\* (index i - 1) of rawItems
mapItems(rawItems, iconIds) ==
  [i \in 1..Len(rawItems) |-> normalizeItem(rawItems[i], i - 1, iconIds)]

rawItemsOf(diagram) ==
  IF isArray(Get(diagram, "i")) THEN Get(diagram, "i").a ELSE <<>>

\* viewsToNormalize without the [[]] default
viewsAsGiven(diagram) ==
  IF isArray(Get(diagram, "v")) THEN Get(diagram, "v").a ELSE <<>>

\* rawViews.length ? rawViews : [[]]
viewsToNormalize(diagram) ==
  LET rawViews == IF isArray(Get(diagram, "v")) THEN Get(diagram, "v").a ELSE <<>>
  IN IF Len(rawViews) # 0 THEN rawViews ELSE <<Arr(<<>>)>>

normalizeCompactDiagramThrows(diagram) ==
  \/ toSafeStringThrows(Get(diagram, "t"))
  \/ \E i \in 1..Len(rawItemsOf(diagram)) : normalizeItemThrows(rawItemsOf(diagram)[i])
  \/ \E i \in 1..Len(viewsToNormalize(diagram)) :
       normalizeViewThrows(viewsToNormalize(diagram)[i])

\* normalizeViews with ensureAllItems set for every view
normalizeViewsAllCovered(title, items, rawViews) ==
  LET views == [index \in 1..Len(rawViews) |->
                  normalizeView(rawViews[index], Len(items), TRUE)]
  IN Obj(<<"t", "i", "v", "_">>,
         <<Str(title), Arr(items), Arr(views), DEFAULT_COMPACT_META>>)

\* normalizeCompactDiagram once iconIds, title and items are computed
normalizeViews(title, items, rawViews) ==
  LET views == [index \in 1..Len(rawViews) |->
                  normalizeView(rawViews[index], Len(items), index = 1)]
  IN Obj(<<"t", "i", "v", "_">>,
         <<Str(title), Arr(items), Arr(views), DEFAULT_COMPACT_META>>)

normalizeCompactDiagram(diagram, icons) ==
  LET orUntitled(trimmed) == IF trimmed # <<>> THEN trimmed ELSE Untitled
      title == Call1(orUntitled, trim(toSafeString(Get(diagram, "t"))))
      items(iconIds) == mapItems(rawItemsOf(diagram), iconIds)
  IN IF normalizeCompactDiagramThrows(diagram) THEN TypeError
     ELSE Call3(normalizeViews, title, Call1(items, buildIconIdSet(icons)),
                viewsToNormalize(diagram))

----------------
(* aiService.ts: validateAICompactDiagram.  A verdict is Accepted or the   *)
(* Error thrown: its message template, the item, position or connection    *)
(* index and the view index the template is filled with (-1 when unused).  *)

Accepted == [ok |-> TRUE, message |-> "", index |-> -1, viewIndex |-> -1]
Rejected(text, i, vi) == [ok |-> FALSE, message |-> text, index |-> i, viewIndex |-> vi]

NotObject == "Diagram must be a JSON object"
NoTitle == "Diagram must have a title string in \"t\""
NoItems == "Diagram must have at least one item in \"i\""
ItemShape == "Item at index ${index} must be [name, icon, description?]"
ItemName == "Item at index ${index} must have a name"
ItemIcon == "Item at index ${index} must have an icon ID"
ItemDescription == "Item description at index ${index} must be a string if provided"
NoViews == "Diagram must have a views array in \"v\""
ViewShape == "View at index ${viewIndex} must be [positions, connections]"
ViewParts == "View at index ${viewIndex} must contain arrays for positions and connections"
PositionShape == "Position at index ${posIndex} in view ${viewIndex} must be [itemIndex, x, y]"
PositionNumbers == "Position at index ${posIndex} in view ${viewIndex} must contain numbers"
ConnectionShape == "Connection at index ${connIndex} in view ${viewIndex} must be [fromIndex, toIndex]"
ConnectionNumbers == "Connection at index ${connIndex} in view ${viewIndex} must contain numbers"

\* typeof v !== 'string' || !v.trim()
notNonBlankString(v) == ~isString(v) \/ trim(v.s) = <<>>

\* validateItem without the item.length < 2 test
validateItemAnyLength(item, index) ==
  IF ~isArray(item) THEN Rejected(ItemShape, index, -1)
  ELSE IF notNonBlankString(At(item, 0)) THEN Rejected(ItemName, index, -1)
  ELSE IF notNonBlankString(At(item, 1)) THEN Rejected(ItemIcon, index, -1)
  ELSE IF At(item, 2) # Undefined /\ ~isString(At(item, 2))
  THEN Rejected(ItemDescription, index, -1)
  ELSE Accepted

\* validateItem with the icon examined before the name
validateItemIconFirst(item, index) ==
  IF ~isArray(item) \/ length(item) < 2 THEN Rejected(ItemShape, index, -1)
  ELSE IF notNonBlankString(At(item, 1)) THEN Rejected(ItemIcon, index, -1)
  ELSE IF notNonBlankString(At(item, 0)) THEN Rejected(ItemName, index, -1)
  ELSE IF At(item, 2) # Undefined /\ ~isString(At(item, 2))
  THEN Rejected(ItemDescription, index, -1)
  ELSE Accepted

validateItem(item, index) ==
  IF ~isArray(item) \/ length(item) < 2 THEN Rejected(ItemShape, index, -1)
  ELSE IF notNonBlankString(At(item, 0)) THEN Rejected(ItemName, index, -1)
  ELSE IF notNonBlankString(At(item, 1)) THEN Rejected(ItemIcon, index, -1)
  ELSE IF At(item, 2) # Undefined /\ ~isString(At(item, 2))
  THEN Rejected(ItemDescription, index, -1)
  ELSE Accepted

\* for (const [index, item] of diagram.i.entries()), from `index` on
RECURSIVE validateItems(_, _)
validateItems(items, index) ==
  IF index >= Len(items) THEN Accepted
  ELSE IF ~validateItem(items[index + 1], index).ok
  THEN validateItem(items[index + 1], index)
  ELSE validateItems(items, index + 1)

validatePosition(pos, posIndex, viewIndex) ==
  IF ~isArray(pos) \/ length(pos) < 3 THEN Rejected(PositionShape, posIndex, viewIndex)
  ELSE IF \E j \in 0..2 : ~isNumberType(At(pos, j))
  THEN Rejected(PositionNumbers, posIndex, viewIndex)
  ELSE Accepted

RECURSIVE validatePositions(_, _, _)
validatePositions(positions, posIndex, viewIndex) ==
  IF posIndex >= Len(positions) THEN Accepted
  ELSE IF ~validatePosition(positions[posIndex + 1], posIndex, viewIndex).ok
  THEN validatePosition(positions[posIndex + 1], posIndex, viewIndex)
  ELSE validatePositions(positions, posIndex + 1, viewIndex)

validateConnection(conn, connIndex, viewIndex) ==
  IF ~isArray(conn) \/ length(conn) < 2
  THEN Rejected(ConnectionShape, connIndex, viewIndex)
  ELSE IF \E j \in 0..1 : ~isNumberType(At(conn, j))
  THEN Rejected(ConnectionNumbers, connIndex, viewIndex)
  ELSE Accepted

RECURSIVE validateConnections(_, _, _)
validateConnections(connections, connIndex, viewIndex) ==
  IF connIndex >= Len(connections) THEN Accepted
  ELSE IF ~validateConnection(connections[connIndex + 1], connIndex, viewIndex).ok
  THEN validateConnection(connections[connIndex + 1], connIndex, viewIndex)
  ELSE validateConnections(connections, connIndex + 1, viewIndex)

validateView(view, viewIndex) ==
  IF ~isArray(view) \/ length(view) < 2 THEN Rejected(ViewShape, -1, viewIndex)
  ELSE IF ~isArray(At(view, 0)) \/ ~isArray(At(view, 1))
  THEN Rejected(ViewParts, -1, viewIndex)
  ELSE IF ~validatePositions(At(view, 0).a, 0, viewIndex).ok
  THEN validatePositions(At(view, 0).a, 0, viewIndex)
  ELSE validateConnections(At(view, 1).a, 0, viewIndex)

RECURSIVE validateViews(_, _)
validateViews(views, viewIndex) ==
  IF viewIndex >= Len(views) THEN Accepted
  ELSE IF ~validateView(views[viewIndex + 1], viewIndex).ok
  THEN validateView(views[viewIndex + 1], viewIndex)
  ELSE validateViews(views, viewIndex + 1)

validateAICompactDiagram(diagram) ==
  IF ~truthy(diagram) \/ ~isObjectType(diagram) THEN Rejected(NotObject, -1, -1)
  ELSE IF ~truthy(Get(diagram, "t")) \/ ~isString(Get(diagram, "t"))
  THEN Rejected(NoTitle, -1, -1)
  ELSE IF ~isArray(Get(diagram, "i")) \/ length(Get(diagram, "i")) = 0
  THEN Rejected(NoItems, -1, -1)
  ELSE IF ~validateItems(Get(diagram, "i").a, 0).ok
  THEN validateItems(Get(diagram, "i").a, 0)
  ELSE IF ~isArray(Get(diagram, "v")) THEN Rejected(NoViews, -1, -1)
  ELSE validateViews(Get(diagram, "v").a, 0)

----------------------------------------------------------------------------
(* Inputs: the payloads and host icon lists the operations are applied to. *)

MaxItems == 3      \* longest raw item list
MaxEntries == 2    \* longest raw position list and raw connection list
MaxViews == 2      \* longest raw view list

\* All sequences over S of length at most n
SeqUpTo(S, n) == UNION {[1..m -> S] : m \in 0..n}

Diagram(title, items, views) == Obj(<<"t", "i", "v">>, <<title, items, views>>)

\* An object whose own "toString" property hides Object.prototype.toString
Unprintable == Obj(<<"toString">>, <<Whole(1)>>)
PlainObject == Obj(<<"x">>, <<Whole(1)>>)

Origin == <<Whole(0), Whole(0)>>

\* Raw position entries that differ in the item index
IndexPositions ==
  { Arr(<<Whole(-1)>> \o Origin), Arr(<<Whole(0)>> \o Origin),
    Arr(<<Num(1)>> \o Origin), Arr(<<Whole(1)>> \o Origin),
    Arr(<<Whole(2)>> \o Origin), Arr(<<Str(<<"1">>), Whole(4), Whole(4)>>),
    Arr(<<Null, Whole(8), Whole(0)>>) }

\* Raw position entries that differ in shape and coordinates
ShapePositions ==
  { Arr(<<Whole(0), Num(3), Num(-1)>>), Arr(<<Whole(1), Str(<<"4">>), Whole(8)>>),
    Arr(<<Whole(0), Str(<<"x">>), Whole(0)>>), Arr(<<Str(<<"x">>)>> \o Origin),
    Arr(Origin), Whole(0), Arr(<<Whole(1), Whole(5), Whole(5), Whole(9)>>),
    Arr(<<Unprintable>> \o Origin) }

\* Raw connection entries that differ in the item indices
IndexConnections ==
  { Arr(<<Whole(0), Whole(1)>>), Arr(<<Whole(0), Whole(0)>>),
    Arr(<<Whole(0), Whole(7)>>), Arr(<<Whole(-1), Whole(0)>>),
    Arr(<<Num(1), Whole(1)>>), Arr(<<Str(<<"1">>), Null>>),
    Arr(<<Whole(2), Whole(1)>>) }

\* Raw connection entries that differ in shape
ShapeConnections ==
  { Arr(<<Whole(0)>>), Whole(5), Arr(<<Whole(1), Whole(0), Whole(2)>>),
    Arr(<<Whole(0), Str(<<"x">>)>>), Arr(<<Whole(0), Unprintable>>),
    Arr(<<Whole(1), Whole(0)>>) }

RawItems ==
  { Arr(<<Str(<<"A">>), Str(<<"b","l","o","c","k">>)>>), Arr(<<Str(<<"A">>)>>), Arr(<<>>), Str(<<"A">>),
    Arr(<<Str(<<" ","B"," ">>), Str(<<"u","n","k","n","o","w","n","_","i","c","o","n","_","x","y","z">>), Str(<<"d"," ">>)>>),
    Arr(<<Whole(5), PlainObject, Num(3)>>),
    Arr(<<Unprintable, Str(<<"v","m">>)>>) }

\* n well-formed items
SimpleItems(n) ==
  Arr([i \in 1..n |-> Arr(<<Str(<<"S">> \o natToString(i)), Str(<<"c","u","b","e">>)>>)])

DefaultView ==
  Arr(<<Arr(<<Arr(<<Whole(0)>> \o Origin)>>), Arr(<<Arr(<<Whole(0), Whole(1)>>)>>)>>)

\* A list of m views whose last view is `view`
ViewList(m, view) == Arr([i \in 1..m |-> IF i = m THEN view ELSE DefaultView])

\* n items and m views, the last view with the given raw positions
PositionPayload(n, m, positions) ==
  Diagram(Str(<<"D","e","m","o">>), SimpleItems(n),
          ViewList(m, Arr(<<Arr(positions), Arr(<<Arr(<<Whole(0), Whole(1)>>)>>)>>)))

\* n items and m views, the last view with the given raw connections
ConnectionPayload(n, m, connections) ==
  Diagram(Str(<<"D","e","m","o">>), SimpleItems(n),
          ViewList(m, Arr(<<Arr(<<Arr(<<Whole(1)>> \o Origin)>>), Arr(connections)>>)))

ItemPayload(items, views) == Diagram(Str(<<"D","e","m","o">>), Arr(items), views)

\* Payloads that are not diagrams, or whose fields have the wrong type
ShapePayloads ==
  { Null, Whole(5), Str(<<"x">>), Bool(TRUE), Arr(<<>>), Arr(<<Whole(1)>>),
    Obj(<<>>, <<>>),
    Obj(<<"t", "i">>, <<Str(<<"x">>), Arr(<<>>)>>),
    Obj(<<"t", "i">>, <<Str(<<"x">>), Arr(<<Arr(<<Str(<<"A">>)>>)>>)>>),
    Obj(<<"t", "i">>, <<Str(<<"x">>), Arr(<<Arr(<<Str(<<"A">>), Str(<<>>)>>)>>)>>),
    Obj(<<"t", "i">>, <<Str(<<"x">>), SimpleItems(1)>>),
    Obj(<<"t", "i">>, <<Str(<<"x">>), Arr(<<Arr(<<Str(<<" ">>), Str(<<"W","e","b"," ","A","p","p">>)>>),
                                         Arr(<<Str(<<"A">>), Str(<<" ">>), Null>>)>>)>>),
    Obj(<<"i", "v">>, <<SimpleItems(2), Arr(<<DefaultView>>)>>) }
  \cup
  {Diagram(title, SimpleItems(2), Arr(<<DefaultView>>)) :
     title \in {Null, Str(<<>>), Str(<<" ">>), Str(<<" ","M","y"," ","T","i","t","l","e","\t">>), Whole(5), Num(-3),
                Bool(FALSE), Arr(<<Whole(1), Null, Str(<<"a">>)>>), PlainObject,
                Unprintable, Arr(<<Unprintable>>)}}
  \cup
  {Diagram(Str(<<"x">>), items, Arr(<<DefaultView>>)) :
     items \in {Null, Str(<<"A","B">>), Whole(2), PlainObject}}
  \cup
  {Diagram(Str(<<"x">>), SimpleItems(2), views) :
     views \in {Null, Str(<<"v">>), PlainObject, Arr(<<>>), Arr(<<Null>>),
                Arr(<<Whole(3), Str(<<"v">>)>>), Arr(<<Arr(<<>>)>>),
                Arr(<<Arr(<<Arr(<<>>)>>)>>),
                Arr(<<Arr(<<Null, Arr(<<Arr(<<Whole(1), Whole(0)>>)>>)>>)>>),
                Arr(<<Arr(<<Arr(<<Arr(<<Whole(1)>> \o Origin)>>), Str(<<"c">>)>>)>>),
                Arr(<<Arr(<<Arr(<<>>), Arr(<<>>), Arr(<<>>)>>)>>),
                Arr(<<DefaultView, Whole(0)>>),
                Arr(<<Arr(<<Arr(<<Arr(<<Whole(0), Str(<<"x">>), Whole(0)>>), Whole(0)>>),
                            Arr(<<Whole(5)>>)>>)>>),
                Arr(<<Arr(<<Arr(<<>>), Arr(<<Arr(<<Whole(0)>>)>>)>>), Arr(<<Null, Null>>)>>),
                Arr(<<DefaultView, Arr(<<Arr(<<>>), Arr(<<>>)>>)>>)}}

RawIcons ==
  { <<>>, <<" ">>, <<"b","l","o","c","k">>, <<"B","l","o","c","k">>, <<" ","V","M"," ">>, <<"v","m">>, <<"t","r","u","c","k","-","2">>, <<"t","r","u","c","k","_","2">>, <<"T","r","u","c","k"," ","2">>,
    <<"f","u","n","c","t","i","o","n","-","m","o","d","u","l","e">>, <<"f","u","n","c","t","i","o","n","_","m","o","d","u","l","e">>, <<"F","u","n","c","t","i","o","n"," ","M","o","d","u","l","e">>, <<"f","u","n","c","t","i","o","n","m","o","d","u","l","e">>,
    <<"l","o","a","d","_","b","a","l","a","n","c","e","r">>, <<"L","o","a","d"," ","B","a","l","a","n","c","e","r">>, <<"l","o","a","d","-","b","a","l","a","n","c","e","r">>, <<"L","O","A","D","B","A","L","A","N","C","E","R">>,
    <<"p","e","r","s","o","n">>, <<"P","e","r","s","o","n">>, <<"w","e","b"," ","a","p","p">>, <<"w","e","b","-","a","p","p">>, <<"W","e","b","_","A","p","p">>, <<"w","e","b","a","p","p">>, <<"a","p","i">>,
    <<"d","a","t","a","b","a","s","e">>, <<"d","a","t","a","_","b","a","s","e">>, <<"d","a","t","a","-","b","a","s","e">>, <<"r","e","d","i","s">>, <<"s","h","i","e","l","d">>, <<"b","a","n","k">>,
    <<"u","s","e","r">>, <<"u","_","s","-","e"," ","r">>, <<"m","o","b","i","l","e">>, <<"m","o","b","i","l","e","_","d","e","v","i","c","e">>, <<"u","n","k","n","o","w","n","_","i","c","o","n","_","x","y","z">>,
    <<"c","o","n","s","t","r","u","c","t","o","r">>, <<"m","y","-","i","c","o","n">>, <<"m","y","_","i","c","o","n">>, <<"m","y","i","c","o","n">>, <<"M","y","I","c","o","n">>, <<"c","u","s","t","o","m">>,
    <<"p","e","r","s","o","n","-","2">>, <<"s","t","o","r","a","g","e">>, <<"-">>, <<"_">> }

IconPayload(icon) ==
  Diagram(Str(<<"I","c","o","n","s">>), Arr(<<Arr(<<Str(<<"A">>), Str(icon)>>)>>), Arr(<<DefaultView>>))

HostIconLists ==
  { Undefined, Arr(<<>>),
    Arr(<<Obj(<<"id">>, <<Str(<<"m","y","-","i","c","o","n">>)>>), Obj(<<"id">>, <<Str(<<"p","e","r","s","o","n">>)>>)>>),
    Arr(<<Obj(<<"id">>, <<Str(<<"M","y","I","c","o","n">>)>>), Obj(<<"name">>, <<Str(<<"c","u","s","t","o","m">>)>>),
          Null, Obj(<<"id">>, <<Whole(7)>>), Obj(<<"id">>, <<Str(<<>>)>>)>>) }

----------------------------------------------------------------------------
(* aiDiagramConverter.ts: generateDiagramSummary, the preview text.  Each  *)
(* pictograph of the text is one character, written by its code point.     *)

ChartGlyph == "U+1F4CA"
SquareGlyph == "U+1F532"
LinkGlyph == "U+1F517"
BulletGlyph == "U+2022"
ArrowGlyph == "U+2192"

\* lines.join('\n')
RECURSIVE joinLines(_)
joinLines(lines) ==
  IF lines = <<>> THEN <<>>
  ELSE IF Len(lines) = 1 THEN lines[1]
  ELSE lines[1] \o <<"\n">> \o joinLines(Tail(lines))

\* Array.isArray(diagram?.i) ? diagram.i : []
summaryItems(diagram) ==
  IF isArray(Get(diagram, "i")) THEN Get(diagram, "i").a ELSE <<>>

\* firstView && Array.isArray(firstView[1]) ? firstView[1] : []
summaryConnections(diagram) ==
  LET firstView == IF isArray(Get(diagram, "v")) /\ length(Get(diagram, "v")) > 0
                   THEN At(Get(diagram, "v"), 0) ELSE Null
      second == IF isArray(firstView) THEN At(firstView, 1) ELSE Get(firstView, "1")
  IN IF truthy(firstView) /\ isArray(second) THEN second.a ELSE <<>>

\* items[index] for a number index: undefined unless index is 0..length-1
summaryItemAt(items, index) ==
  IF index.k = "number" /\ index.n % 2 = 0 /\ index.n \div 2 \in 0..(Len(items) - 1)
  THEN items[index.n \div 2 + 1] ELSE Undefined

\* The callback of items.forEach: the lines it pushes
summaryItemLines(item, index) ==
  LET orItemN(trimmed) == IF trimmed # <<>> THEN trimmed
                          ELSE <<"I","t","e","m"," ">> \o natToString(index + 1)
      orBlock(trimmed) == IF trimmed # <<>> THEN trimmed ELSE Block
      name == Call1(orItemN, trim(toSafeString(At(item, 0))))
      icon == Call1(orBlock, trim(toSafeString(At(item, 1))))
  IN IF ~isArray(item) THEN <<>>
     ELSE << <<" ", " ", BulletGlyph, " ">> \o name \o <<" ", "(">> \o icon \o <<")">> >>

\* The callback of connections.forEach: the lines it pushes
summaryConnectionLines(conn, items) ==
  LET plusOne(v) == IF v.k = "number" THEN Num(v.n + 2) ELSE NaN
      nameOf(index) ==
        IF isArray(summaryItemAt(items, index))
        THEN trim(toSafeString(At(summaryItemAt(items, index), 0)))
        ELSE <<"I","t","e","m"," ">> \o String(plusOne(index))
      line(fromIndex, toIndex) ==
        << <<" ", " ", BulletGlyph, " ">> \o nameOf(fromIndex)
           \o <<" ", ArrowGlyph, " ">> \o nameOf(toIndex) >>
  IN IF ~isArray(conn) \/ length(conn) < 2 THEN <<>>
     ELSE Call2(line, Number(At(conn, 0)), Number(At(conn, 1)))

\* All the lines pushed, in order
RECURSIVE concatLines(_)
concatLines(pushed) ==
  IF pushed = <<>> THEN <<>> ELSE Head(pushed) \o concatLines(Tail(pushed))

\* A String() or Number() call of generateDiagramSummary ends in a TypeError
generateDiagramSummaryThrows(diagram) ==
  \/ toSafeStringThrows(Get(diagram, "t"))
  \/ \E i \in 1..Len(summaryItems(diagram)) :
       /\ isArray(summaryItems(diagram)[i])
       /\ \E j \in 0..1 : toSafeStringThrows(At(summaryItems(diagram)[i], j))
  \/ \E c \in 1..Len(summaryConnections(diagram)) :
       /\ isArray(summaryConnections(diagram)[c])
       /\ length(summaryConnections(diagram)[c]) >= 2
       /\ \E j \in 0..1 : toPrimitiveThrows(At(summaryConnections(diagram)[c], j))

generateDiagramSummary(diagram) ==
  LET orUntitled(trimmed) == IF trimmed # <<>> THEN trimmed ELSE Untitled
      title == Call1(orUntitled, trim(toSafeString(Get(diagram, "t"))))
      items == summaryItems(diagram)
      connections == summaryConnections(diagram)
  IN joinLines(
       << <<ChartGlyph, " ">> \o title,
          <<>>,
          <<SquareGlyph, " ">> \o natToString(Len(items))
            \o <<" ","i","t","e","m","(","s",")",":">> >>
       \o concatLines([i \in 1..Len(items) |-> summaryItemLines(items[i], i - 1)])
       \o << <<>>,
             <<LinkGlyph, " ">> \o natToString(Len(connections))
               \o <<" ","c","o","n","n","e","c","t","o","r","(","s",")",":">> >>
       \o concatLines([c \in 1..Len(connections) |->
                         summaryConnectionLines(connections[c], items)]))

----------------------------------------------------------------------------
(* Texts.  The text of the JSON editor, or of an LLM reply, is either no   *)
(* JSON at all (its characters are kept) or the JSON text of a value,      *)
(* printed with some indentation; JSON.parse gives that value back.        *)

PlainText(chars) == [json |-> FALSE, chars |-> chars, value |-> Null, indent |-> 0]
JsonText(value, indent) == [json |-> TRUE, chars |-> <<>>, value |-> value, indent |-> indent]

\* JSON.stringify(value, null, 2)
stringifyPretty(value) == JsonText(value, 2)

\* JSON.parse(text) throws a SyntaxError
parseThrows(text) == ~text.json

\* JSON.parse(text) when it does not throw
parse(text) == text.value

\* !text.trim()
blankText(text) == ~text.json /\ trim(text.chars) = <<>>

\* The code fences an LLM wraps its answer in, three grave accents
GraveAccent == "U+0060"
FenceJson == PlainText(<<GraveAccent, GraveAccent, GraveAccent, "j", "s", "o", "n">>)
Fence == PlainText(<<GraveAccent, GraveAccent, GraveAccent>>)

\* An error message, or null
NoMessage == [isNull |-> TRUE, text |-> ""]
Message(text) == [isNull |-> FALSE, text |-> text]

----------------------------------------------------------------------------
(* aiService.ts: generateDiagramWithAI once the request is sent.  A reply  *)
(* is what fetch settles with: a rejection, an HTTP error status, or a     *)
(* completion whose message content is a value; a string content is the    *)
(* sequence of its parts, code fences and texts.                           *)


NetworkFailure == [settled |-> "rejected", ok |-> FALSE, content |-> Undefined, parts |-> <<>>]
HttpError == [settled |-> "fulfilled", ok |-> FALSE, content |-> Undefined, parts |-> <<>>]
\* choices[0].message.content is the given value, not a string
Completion(content) == [settled |-> "fulfilled", ok |-> TRUE, content |-> content, parts |-> <<>>]
\* choices[0].message.content is the string made of the given parts
Answer(parts) == [settled |-> "fulfilled", ok |-> TRUE, content |-> Str(<<"*">>), parts |-> parts]

Returned(diagram) == [ok |-> TRUE, diagram |-> diagram, message |-> ""]
Thrown(message) == [ok |-> FALSE, diagram |-> Null, message |-> message]

FailedToFetch == "Failed to fetch"
ApiError == "AI API error (${response.status}): ${errorText}"
EmptyResponse == "AI returned empty response"
TrimIsNotAFunction == "content.trim is not a function"
InvalidJson == "AI returned invalid JSON. Please try again with a clearer prompt."
UnexpectedToken == "Unexpected token"
CannotConvert == "Cannot convert object to primitive value"

\* The two startsWith tests and the endsWith test on the content
stripFences(parts) ==
  LET opened == IF parts # <<>> /\ Head(parts) \in {FenceJson, Fence}
                THEN Tail(parts) ELSE parts
  IN IF opened # <<>> /\ opened[Len(opened)] = Fence
     THEN SubSeq(opened, 1, Len(opened) - 1) ELSE opened

\* JSON.parse(jsonString) throws: what is left is not one JSON text
jsonStringThrows(parts) ==
  Len(parts) # 1 \/ parts[1] \in {FenceJson, Fence} \/ parseThrows(parts[1])

\* generateDiagramWithAI without its call of the validator
generateDiagramWithAIUnvalidated(reply) ==
  IF reply.settled = "rejected" THEN Thrown(FailedToFetch)
  ELSE IF ~reply.ok THEN Thrown(ApiError)
  ELSE IF ~truthy(reply.content) THEN Thrown(EmptyResponse)
  ELSE IF ~isString(reply.content) THEN Thrown(TrimIsNotAFunction)
  ELSE IF jsonStringThrows(stripFences(reply.parts)) THEN Thrown(InvalidJson)
  ELSE Returned(parse(stripFences(reply.parts)[1]))

generateDiagramWithAI(reply) ==
  IF reply.settled = "rejected" THEN Thrown(FailedToFetch)
  ELSE IF ~reply.ok THEN Thrown(ApiError)
  ELSE IF ~truthy(reply.content) THEN Thrown(EmptyResponse)
  ELSE IF ~isString(reply.content) THEN Thrown(TrimIsNotAFunction)
  ELSE IF jsonStringThrows(stripFences(reply.parts)) THEN Thrown(InvalidJson)
  ELSE IF ~validateAICompactDiagram(parse(stripFences(reply.parts)[1])).ok
  THEN Thrown(validateAICompactDiagram(parse(stripFences(reply.parts)[1])).message)
  ELSE Returned(parse(stripFences(reply.parts)[1]))

\* AI_PRESETS[provider].model
PresetModel(name) ==
  CASE name = "openai" -> <<"g","p","t","-","4","o">>
    [] name = "deepseek" -> <<"d","e","e","p","s","e","e","k","-","c","h","a","t">>
    [] name = "ollama" -> <<"l","l","a","m","a","3">>
    [] OTHER -> <<>>

\* The config of a dialog that finds none saved
DefaultConfig == [apiKey |-> <<>>, model |-> PresetModel("openai")]

\* localStorage.getItem gives null
NoItem == [present |-> FALSE, value |-> DefaultConfig]

\* saveAIConfig: the item holds JSON.stringify(config), which JSON.parse
\* turns back into a config with the same fields
saveAIConfig(value) == [present |-> TRUE, value |-> value]

\* loadAIConfig() || the default, with no AI_API_ENDPOINT in the environment
loadAIConfig(item) == IF item.present THEN item.value ELSE DefaultConfig

NothingApplied == [via |-> "none", input |-> Null, data |-> Null]
Applied(via, input, data) == [via |-> via, input |-> input, data |-> data]

\* The dialog as it is before it is opened
DialogClosed ==
  /\ activeTab = "generate"
  /\ provider = "openai"
  /\ config = DefaultConfig
  /\ prompt = <<>>
  /\ isGenerating = FALSE
  /\ error = NoMessage
  /\ generatedDiagram = Null
  /\ preview = <<>>
  /\ jsonInput = PlainText(<<>>)
  /\ jsonError = NoMessage
  /\ requests = <<>>
  /\ applied = NothingApplied
  /\ storedConfig = NoItem

----------------------------------------------------------------------------
(* The pipeline as a state machine: a payload arrives, and the validator   *)
(* and the normalizer are applied to it; the normalizer is applied again   *)
(* to its own output.                                                      *)

Pending == JsValue("pending", 0, <<>>, <<>>, <<>>)
NotValidated == [ok |-> FALSE, message |-> "pending", index |-> -1, viewIndex |-> -1]

Init ==
  /\ \/ /\ \/ \E n \in 0..MaxItems, m \in 1..MaxViews :
                \/ \E positions \in SeqUpTo(IndexPositions, MaxEntries) :
                     raw = PositionPayload(n, m, positions)
                \/ \E connections \in SeqUpTo(IndexConnections, MaxEntries) :
                     raw = ConnectionPayload(n, m, connections)
           \/ \E m \in 1..MaxViews :
                \/ \E positions \in SeqUpTo(ShapePositions, MaxEntries) :
                     raw = PositionPayload(2, m, positions)
                \/ \E connections \in SeqUpTo(ShapeConnections, MaxEntries) :
                     raw = ConnectionPayload(2, m, connections)
           \/ \E items \in SeqUpTo(RawItems, MaxItems),
                 views \in {Undefined, Arr(<<DefaultView>>)} :
                raw = ItemPayload(items, views)
           \/ raw \in ShapePayloads
        /\ existingIcons = Arr(<<>>)
     \/ /\ \E icon \in RawIcons : raw = IconPayload(icon)
        /\ existingIcons \in HostIconLists
  /\ verdict = NotValidated
  /\ normalized = Pending
  /\ renormalized = Pending
  /\ DialogClosed

\* generateDiagramWithAI: validateAICompactDiagram(diagram)
Validate ==
  /\ verdict = NotValidated
  /\ verdict' = validateAICompactDiagram(raw)
  /\ UNCHANGED <<raw, existingIcons, normalized, renormalized, dialogVars>>

\* convertAIDiagramToFossFLOW: normalizeCompactDiagram(aiDiagram, existingIcons)
Normalize ==
  /\ normalized = Pending
  /\ normalized' = normalizeCompactDiagram(raw, existingIcons)
  /\ UNCHANGED <<raw, existingIcons, verdict, renormalized, dialogVars>>

\* The normalized diagram is converted once more
Renormalize ==
  /\ normalized \notin {Pending, TypeError}
  /\ renormalized = Pending
  /\ renormalized' = normalizeCompactDiagram(normalized, existingIcons)
  /\ UNCHANGED <<raw, existingIcons, verdict, normalized, dialogVars>>

Next == Validate \/ Normalize \/ Renormalize

Spec == Init /\ [][Next]_vars

MaxLayoutItems == 17   \* longest item list laid out

\* Raw position lists for the first view: explicit places on and off the
\* cells of the layout grid, for items that exist and for one that does not
LayoutPositionLists ==
  { <<>>,
    <<Arr(<<Whole(0), Whole(1), Whole(1)>>)>>,
    <<Arr(<<Whole(1), Whole(0), Whole(0)>>)>>,
    <<Arr(<<Whole(2), Whole(9), Whole(9)>>), Arr(<<Whole(0), Whole(8), Whole(4)>>)>>,
    <<Arr(<<Whole(5), Whole(4), Whole(0)>>), Arr(<<Whole(3), Whole(-4), Whole(0)>>)>>,
    <<Arr(<<Whole(4), Whole(2), Whole(2)>>), Arr(<<Whole(4), Whole(3), Whole(3)>>),
      Arr(<<Whole(40), Whole(6), Whole(6)>>)>>,
    <<Arr(<<Whole(16), Whole(7), Whole(7)>>), Arr(<<Whole(1), Whole(5), Whole(5)>>),
      Arr(<<Whole(2), Whole(6), Whole(5)>>)>> }

\* A payload whose first view leaves items to autoLayoutPositions
LayoutInit ==
  /\ \E n \in 0..MaxLayoutItems, positions \in LayoutPositionLists :
       raw = PositionPayload(n, 1, positions)
  /\ existingIcons = Arr(<<>>)
  /\ verdict = NotValidated
  /\ normalized = Pending
  /\ renormalized = Pending
  /\ DialogClosed

\* The pipeline applied to the layout payloads
LayoutSpec == LayoutInit /\ [][Next]_vars

----------------------------------------------------------------------------
(* AIGenerateDialog.tsx: the dialog.  Its state is the component's state   *)
(* variables; `requests` holds the generateDiagramWithAI calls that have   *)
(* not returned yet, each with the reply fetch settled with once it has    *)
(* arrived; `applied` is what was last handed to onGenerate.               *)

MaxRequests == 2   \* most calls of generateDiagramWithAI pending at once

Tabs == {"generate", "schema", "settings"}
\* The providers chosen in the dialog: one that needs an API key and the one
\* that does not (deepseek and custom are handled as openai is, with other
\* preset strings)
Providers == {"openai", "ollama"}

ErrorEmptyPrompt == "ai.errorEmptyPrompt"
ErrorNoApiKey == "ai.errorNoApiKey"

\* What the user types into the prompt box; an example prompt
Prompts == {<<>>, <<" ">>, <<"a">>}
ExamplePrompt == <<"e", "x">>

ApiKeys == {<<>>, <<"k">>}

\* Diagrams an LLM answers with
OneViewDiagram ==
  Diagram(Str(<<"D","e","m","o">>), SimpleItems(2),
          Arr(<<Arr(<<Arr(<<Arr(<<Whole(1), Whole(2), Whole(0)>>)>>),
                      Arr(<<Arr(<<Whole(0), Whole(1)>>), Arr(<<Whole(0), Whole(7)>>)>>)>>)>>))
NoViewDiagram == Diagram(Str(<<" ","T"," ">>), SimpleItems(1), Arr(<<>>))
NoIconDiagram ==
  Diagram(Str(<<"x">>), Arr(<<Arr(<<Str(<<"A">>), Str(<<>>)>>)>>), Arr(<<DefaultView>>))
UnprintableTitle == Diagram(Unprintable, SimpleItems(1), Arr(<<DefaultView>>))

\* What fetch settles with
Replies ==
  { NetworkFailure, HttpError, Completion(Undefined), Completion(Str(<<>>)),
    Completion(PlainObject),
    Answer(<<PlainText(<<"S","o","r","r","y">>)>>),
    Answer(<<PlainText(<<" ">>)>>),
    Answer(<<JsonText(OneViewDiagram, 0)>>),
    Answer(<<FenceJson, JsonText(NoViewDiagram, 2), Fence>>),
    Answer(<<Fence, JsonText(OneViewDiagram, 2)>>),
    Answer(<<JsonText(NoIconDiagram, 0)>>),
    Answer(<<JsonText(Null, 0)>>) }

\* What the user types into the JSON editor
JsonEdits ==
  { PlainText(<<>>), PlainText(<<"{">>), JsonText(OneViewDiagram, 0),
    JsonText(UnprintableTitle, 0) }

InFlight == [prompt |-> <<>>, arrived |-> FALSE, reply |-> HttpError]
Sent(text) == [InFlight EXCEPT !.prompt = text]

DialogInit ==
  /\ raw = Null /\ existingIcons = Arr(<<>>)
  /\ verdict = NotValidated /\ normalized = Pending /\ renormalized = Pending
  /\ activeTab = "generate"
  /\ provider \in Providers
  /\ storedConfig \in {NoItem} \cup {saveAIConfig([DefaultConfig EXCEPT !.apiKey = apiKey]) :
                                      apiKey \in ApiKeys \ {<<>>}}
  /\ config = loadAIConfig(storedConfig)
  /\ prompt = <<>>
  /\ isGenerating = FALSE
  /\ error = NoMessage
  /\ generatedDiagram = Null
  /\ preview = <<>>
  /\ jsonInput = PlainText(<<>>)
  /\ jsonError = NoMessage
  /\ requests = <<>>
  /\ applied = NothingApplied

\* handleGenerate with the previous diagram and preview left in place
\* while the request is pending
handleGenerateKeepingResult ==
  /\ IF trim(prompt) = <<>>
     THEN /\ error' = Message(ErrorEmptyPrompt)
          /\ UNCHANGED <<isGenerating, generatedDiagram, preview, requests>>
     ELSE IF config.apiKey = <<>> /\ provider # "ollama"
     THEN /\ error' = Message(ErrorNoApiKey)
          /\ UNCHANGED <<isGenerating, generatedDiagram, preview, requests>>
     ELSE /\ Len(requests) < MaxRequests
          /\ isGenerating' = TRUE
          /\ error' = NoMessage
          /\ requests' = Append(requests, Sent(prompt))
          /\ UNCHANGED <<generatedDiagram, preview>>
  /\ UNCHANGED <<pipelineVars, storedConfig, activeTab, provider, config, prompt, jsonInput, jsonError, applied>>

\* handleGenerate asking every provider for an API key
handleGenerateEveryProviderKeyed ==
  /\ IF trim(prompt) = <<>>
     THEN /\ error' = Message(ErrorEmptyPrompt)
          /\ UNCHANGED <<isGenerating, generatedDiagram, preview, requests>>
     ELSE IF config.apiKey = <<>>
     THEN /\ error' = Message(ErrorNoApiKey)
          /\ UNCHANGED <<isGenerating, generatedDiagram, preview, requests>>
     ELSE /\ Len(requests) < MaxRequests
          /\ isGenerating' = TRUE
          /\ error' = NoMessage
          /\ generatedDiagram' = Null
          /\ preview' = <<>>
          /\ requests' = Append(requests, Sent(prompt))
  /\ UNCHANGED <<pipelineVars, storedConfig, activeTab, provider, config, prompt, jsonInput, jsonError, applied>>

\* handleGenerate up to its await
handleGenerate ==
  /\ IF trim(prompt) = <<>>
     THEN /\ error' = Message(ErrorEmptyPrompt)
          /\ UNCHANGED <<isGenerating, generatedDiagram, preview, requests>>
     ELSE IF config.apiKey = <<>> /\ provider # "ollama"
     THEN /\ error' = Message(ErrorNoApiKey)
          /\ UNCHANGED <<isGenerating, generatedDiagram, preview, requests>>
     ELSE /\ Len(requests) < MaxRequests
          /\ isGenerating' = TRUE
          /\ error' = NoMessage
          /\ generatedDiagram' = Null
          /\ preview' = <<>>
          /\ requests' = Append(requests, Sent(prompt))
  /\ UNCHANGED <<pipelineVars, storedConfig, activeTab, provider, config, prompt, jsonInput, jsonError, applied>>

\* The tab buttons; the "go to settings" and "edit JSON" buttons of the
\* generate tab set the tab in the same way
setActiveTab ==
  /\ \E tab \in Tabs : activeTab' = tab
  /\ UNCHANGED <<pipelineVars, storedConfig, provider, config, prompt, isGenerating, error, generatedDiagram,
                 preview, jsonInput, jsonError, requests, applied>>

\* onChange of the prompt box, which is disabled while isGenerating
setPrompt ==
  /\ activeTab = "generate" /\ ~isGenerating
  /\ \E text \in Prompts : prompt' = text
  /\ UNCHANGED <<pipelineVars, storedConfig, activeTab, provider, config, isGenerating, error, generatedDiagram,
                 preview, jsonInput, jsonError, requests, applied>>

\* onClick of an example prompt button
clickExample ==
  /\ activeTab = "generate"
  /\ prompt' = ExamplePrompt
  /\ UNCHANGED <<pipelineVars, storedConfig, activeTab, provider, config, isGenerating, error, generatedDiagram,
                 preview, jsonInput, jsonError, requests, applied>>

\* onClick of the Generate button: disabled={isGenerating || !prompt.trim()}
clickGenerate ==
  /\ activeTab = "generate" /\ ~isGenerating /\ trim(prompt) # <<>>
  /\ handleGenerate

\* onKeyDown of the prompt box, Enter with Ctrl or Meta: disabled={isGenerating}
pressCtrlEnter ==
  /\ activeTab = "generate" /\ ~isGenerating
  /\ handleGenerate

\* onClick of the Regenerate button, rendered inside {preview && ...}
clickRegenerate ==
  /\ activeTab = "generate" /\ preview # <<>>
  /\ handleGenerate

\* fetch settles for a pending call
receiveReply ==
  /\ \E i \in 1..Len(requests), reply \in Replies :
       /\ ~requests[i].arrived
       /\ requests' = [requests EXCEPT ![i] = [@ EXCEPT !.arrived = TRUE, !.reply = reply]]
  /\ UNCHANGED <<pipelineVars, storedConfig, activeTab, provider, config, prompt, isGenerating, error,
                 generatedDiagram, preview, jsonInput, jsonError, applied>>

\* resumeGenerate with setIsGenerating(false) at the end of the try block
\* only, not in a finally block
resumeGenerateNoFinally ==
  /\ \E i \in 1..Len(requests) :
       /\ requests[i].arrived
       /\ requests' = SubSeq(requests, 1, i - 1) \o SubSeq(requests, i + 1, Len(requests))
       /\ \E result \in {generateDiagramWithAI(requests[i].reply)} :
             IF ~result.ok
             THEN /\ error' = Message(result.message)
                  /\ UNCHANGED <<generatedDiagram, preview, jsonInput, isGenerating>>
             ELSE IF generateDiagramSummaryThrows(result.diagram)
             THEN /\ generatedDiagram' = result.diagram
                  /\ error' = Message(CannotConvert)
                  /\ UNCHANGED <<preview, jsonInput, isGenerating>>
             ELSE /\ generatedDiagram' = result.diagram
                  /\ preview' = generateDiagramSummary(result.diagram)
                  /\ jsonInput' = stringifyPretty(result.diagram)
                  /\ isGenerating' = FALSE
                  /\ UNCHANGED error
  /\ UNCHANGED <<pipelineVars, storedConfig, activeTab, provider, config, prompt, jsonError, applied>>

\* handleGenerate from its await on: try, catch and finally
resumeGenerate ==
  /\ \E i \in 1..Len(requests) :
       /\ requests[i].arrived
       /\ requests' = SubSeq(requests, 1, i - 1) \o SubSeq(requests, i + 1, Len(requests))
       /\ \E result \in {generateDiagramWithAI(requests[i].reply)} :
             IF ~result.ok
             THEN /\ error' = Message(result.message)
                  /\ UNCHANGED <<generatedDiagram, preview, jsonInput>>
             ELSE IF generateDiagramSummaryThrows(result.diagram)
             THEN /\ generatedDiagram' = result.diagram
                  /\ error' = Message(CannotConvert)
                  /\ UNCHANGED <<preview, jsonInput>>
             ELSE /\ generatedDiagram' = result.diagram
                  /\ preview' = generateDiagramSummary(result.diagram)
                  /\ jsonInput' = stringifyPretty(result.diagram)
                  /\ UNCHANGED error
  /\ isGenerating' = FALSE
  /\ UNCHANGED <<pipelineVars, storedConfig, activeTab, provider, config, prompt, jsonError, applied>>

\* onClick of the Apply button, rendered inside {preview && ...}; an error
\* thrown by the conversion leaves the handler before onGenerate
handleApplyGenerated ==
  /\ activeTab = "generate" /\ preview # <<>>
  /\ IF ~truthy(generatedDiagram)
     THEN UNCHANGED applied
     ELSE \E data \in {normalizeCompactDiagram(generatedDiagram, existingIcons)} :
            IF data = TypeError
            THEN UNCHANGED applied
            ELSE applied' = Applied("generated", generatedDiagram, data)
  /\ UNCHANGED <<pipelineVars, storedConfig, activeTab, provider, config, prompt, isGenerating, error,
                 generatedDiagram, preview, jsonInput, jsonError, requests>>

\* onChange of the JSON editor
editJsonInput ==
  /\ activeTab = "schema"
  /\ \E text \in JsonEdits : jsonInput' = text
  /\ jsonError' = NoMessage
  /\ UNCHANGED <<pipelineVars, storedConfig, activeTab, provider, config, prompt, isGenerating, error,
                 generatedDiagram, preview, requests, applied>>

\* onClick of the Apply JSON button: disabled={!jsonInput.trim()}
handleApplyJSON ==
  /\ activeTab = "schema" /\ ~blankText(jsonInput)
  /\ IF parseThrows(jsonInput)
     THEN jsonError' = Message(UnexpectedToken) /\ UNCHANGED applied
     ELSE \E data \in {normalizeCompactDiagram(parse(jsonInput), existingIcons)} :
            IF data = TypeError
            THEN jsonError' = Message(CannotConvert) /\ UNCHANGED applied
            ELSE applied' = Applied("json", parse(jsonInput), data) /\ UNCHANGED jsonError
  /\ UNCHANGED <<pipelineVars, storedConfig, activeTab, provider, config, prompt, isGenerating, error,
                 generatedDiagram, preview, jsonInput, requests>>

\* onClick of the Format button: disabled={!jsonInput.trim()}
formatJSON ==
  /\ activeTab = "schema" /\ ~blankText(jsonInput)
  /\ IF parseThrows(jsonInput)
     THEN jsonError' = Message(UnexpectedToken) /\ UNCHANGED jsonInput
     ELSE jsonInput' = stringifyPretty(parse(jsonInput)) /\ jsonError' = NoMessage
  /\ UNCHANGED <<pipelineVars, storedConfig, activeTab, provider, config, prompt, isGenerating, error,
                 generatedDiagram, preview, requests, applied>>

\* onClick of a provider button: the preset's model replaces the config's,
\* the API key stays, and saveAIConfig is not called
handleProviderChange ==
  /\ activeTab = "settings"
  /\ \E newProvider \in Providers :
       /\ provider' = newProvider
       /\ config' = [config EXCEPT !.model = IF PresetModel(newProvider) # <<>>
                                             THEN PresetModel(newProvider) ELSE @]
  /\ UNCHANGED <<pipelineVars, storedConfig, activeTab, prompt, isGenerating, error, generatedDiagram,
                 preview, jsonInput, jsonError, requests, applied>>

\* onChange of the API key field, rendered when provider !== 'ollama'
handleConfigChange ==
  /\ activeTab = "settings" /\ provider # "ollama"
  /\ \E apiKey \in ApiKeys :
       /\ config' = [config EXCEPT !.apiKey = apiKey]
       /\ storedConfig' = saveAIConfig(config')
  /\ UNCHANGED <<pipelineVars, activeTab, provider, prompt, isGenerating, error, generatedDiagram,
                 preview, jsonInput, jsonError, requests, applied>>

DialogNext ==
  \/ setActiveTab \/ setPrompt \/ clickExample
  \/ clickGenerate \/ pressCtrlEnter \/ clickRegenerate
  \/ receiveReply \/ resumeGenerate
  \/ handleApplyGenerated
  \/ editJsonInput \/ handleApplyJSON \/ formatJSON
  \/ handleProviderChange \/ handleConfigChange

\* The dialog, opened over the host's icons
DialogSpec == DialogInit /\ [][DialogNext]_vars

\* The step ends the call whose request is number i: handleGenerate is
\* resumed after its await and the call leaves the pending ones
EndsCall(i) ==
  /\ i \in 1..Len(requests)
  /\ requests[i].arrived
  /\ requests' = SubSeq(requests, 1, i - 1) \o SubSeq(requests, i + 1, Len(requests))

\* The Generate tab alone: the prompt box, the example buttons, the three
\* controls that call handleGenerate, the pending call and the Apply button.
\* The controls of the other tabs write none of prompt, isGenerating, error,
\* generatedDiagram, preview and requests.
GenerateTabNext ==
  \/ setPrompt \/ clickExample
  \/ clickGenerate \/ pressCtrlEnter \/ clickRegenerate
  \/ receiveReply \/ resumeGenerate
  \/ handleApplyGenerated

\* The Generate tab with a network whose calls settle (fetch resolves or
\* rejects in the end) and an event loop that runs the continuation of a
\* settled await: the steps that end a call are those of resumeGenerate
GenerateFairSpec ==
  /\ DialogInit /\ [][GenerateTabNext]_vars
  /\ WF_vars(receiveReply)
  /\ WF_requests(\E i \in 1..Len(requests) : EndsCall(i))

----------------------------------------------------------------------------
(* Properties *)

\* normalizeCompactDiagram has returned a diagram
Normalized == normalized.k = "object"

itemsOf(diagram) == Get(diagram, "i").a
viewsOf(diagram) == Get(diagram, "v").a
positionsOf(view) == view.a[1].a
connectionsOf(view) == view.a[2].a
itemIndexOf(pos) == pos.a[1]

\* The raw position entries of raw view number i (1-based), as the code reads them
rawPositionsAt(i) ==
  IF isArray(Get(raw, "v")) /\ i <= Len(Get(raw, "v").a)
  THEN rawPositionsOf(Get(raw, "v").a[i]) ELSE <<>>

rawConnectionsAt(i) ==
  IF isArray(Get(raw, "v")) /\ i <= Len(Get(raw, "v").a)
  THEN rawConnectionsOf(Get(raw, "v").a[i]) ELSE <<>>

rawViewCount == IF isArray(Get(raw, "v")) THEN Len(Get(raw, "v").a) ELSE 0

\* v is a number that is an integer in 0..count-1
IsItemIndex(v, count) == v.k = "number" /\ v.n % 2 = 0 /\ v.n \div 2 \in 0..(count - 1)

\* C1: the first view of a normalized diagram with N items has exactly N
\* position entries, with pairwise distinct item indices that are exactly
\* 0..N-1, whatever the raw position list held.
C1_FirstViewFullCoverage ==
  Normalized =>
    LET N == Len(itemsOf(normalized))
        P == positionsOf(viewsOf(normalized)[1])
    IN /\ Len(P) = N
       /\ \A i, j \in 1..Len(P) : i # j => itemIndexOf(P[i]) # itemIndexOf(P[j])
       /\ {itemIndexOf(P[i]) : i \in 1..Len(P)} = {Whole(k) : k \in 0..(N - 1)}

\* C2: in every view of a normalized diagram each position's itemIndex v and
\* each connection's fromIndex and toIndex v is a number with
\* 0 <= v < itemCount, also when the item list is empty.
C2_IndexSafety ==
  Normalized =>
    LET N == Len(itemsOf(normalized))
        InRange(v) == v.k = "number" /\ 0 <= v.n /\ v.n < 2 * N
    IN \A i \in 1..Len(viewsOf(normalized)) :
         /\ \A p \in 1..Len(positionsOf(viewsOf(normalized)[i])) :
              InRange(itemIndexOf(positionsOf(viewsOf(normalized)[i])[p]))
         /\ \A c \in 1..Len(connectionsOf(viewsOf(normalized)[i])) :
              /\ InRange(connectionsOf(viewsOf(normalized)[i])[c].a[1])
              /\ InRange(connectionsOf(viewsOf(normalized)[i])[c].a[2])

\* The raw payload names an item index at or past the item count, in a
\* position and in a connection, and has been normalized.
C2_Witness ==
  /\ Normalized
  /\ \E i \in 1..rawViewCount :
       /\ \E p \in 1..Len(rawPositionsAt(i)) :
            /\ isArray(rawPositionsAt(i)[p]) /\ length(rawPositionsAt(i)[p]) >= 3
            /\ Number(At(rawPositionsAt(i)[p], 0)).k = "number"
            /\ Number(At(rawPositionsAt(i)[p], 0)).n >= 2 * Len(itemsOf(normalized))
       /\ Len(connectionsOf(viewsOf(normalized)[i])) < Len(rawConnectionsAt(i))

\* C3: every itemIndex, fromIndex and toIndex of a normalized view is an
\* integer in 0..itemCount-1, for every raw entry that coerces to a finite
\* number (0.5, numeric strings, booleans, null included).
C3_IndicesAreItemReferences ==
  Normalized =>
    LET N == Len(itemsOf(normalized))
    IN \A i \in 1..Len(viewsOf(normalized)) :
         /\ \A p \in 1..Len(positionsOf(viewsOf(normalized)[i])) :
              IsItemIndex(itemIndexOf(positionsOf(viewsOf(normalized)[i])[p]), N)
         /\ \A c \in 1..Len(connectionsOf(viewsOf(normalized)[i])) :
              /\ IsItemIndex(connectionsOf(viewsOf(normalized)[i])[c].a[1], N)
              /\ IsItemIndex(connectionsOf(viewsOf(normalized)[i])[c].a[2], N)

\* C4: in every normalized view, the first and the later ones, no two
\* position entries carry the same itemIndex.
C4_PerViewUniqueness ==
  Normalized =>
    \A i \in 1..Len(viewsOf(normalized)) :
      LET P == positionsOf(viewsOf(normalized)[i])
      IN \A p, q \in 1..Len(P) : p # q => itemIndexOf(P[p]) # itemIndexOf(P[q])

\* Two raw position entries of one view coerce to the same in-range item
\* index, and the payload has been normalized.
C4_Witness ==
  /\ Normalized
  /\ \E i \in 1..rawViewCount :
       \E p, q \in 1..Len(rawPositionsAt(i)) :
         /\ p < q
         /\ isArray(rawPositionsAt(i)[p]) /\ length(rawPositionsAt(i)[p]) >= 3
         /\ isArray(rawPositionsAt(i)[q]) /\ length(rawPositionsAt(i)[q]) >= 3
         /\ Number(At(rawPositionsAt(i)[p], 0)) = Number(At(rawPositionsAt(i)[q], 0))
         /\ IsItemIndex(Number(At(rawPositionsAt(i)[p], 0)), Len(itemsOf(normalized)))
         /\ Len(positionsOf(viewsOf(normalized)[i])) > 0

\* C5: normalizing a normalized diagram with the same host icons returns the
\* same diagram: title, items, every view's positions and connections in the
\* same order, and the format metadata.
C5_Idempotence ==
  renormalized # Pending => renormalized = normalized

\* A payload that normalization changed (entries dropped or coerced, and
\* positions synthesized in the first view) has been normalized twice.
C5_Witness ==
  /\ renormalized # Pending
  /\ Len(positionsOf(viewsOf(normalized)[1])) > Len(rawPositionsAt(1))
  /\ \E i \in 1..rawViewCount :
       Len(positionsOf(viewsOf(normalized)[i])) < Len(rawPositionsAt(i))

\* C6: the icon of every normalized item is a member of the known-icon set,
\* the built-in catalog united with the host's ids, and the default "block"
\* is a member of that set.
C6_IconResolverMembership ==
  /\ Block \in buildIconIdSet(existingIcons)
  /\ Normalized =>
       \A i \in 1..Len(itemsOf(normalized)) :
         itemsOf(normalized)[i].a[2].s \in buildIconIdSet(existingIcons)

\* A raw icon that is no known id as written (mixed case, separators, an
\* alias) has been resolved, with host icons registered, to a known icon
\* other than the default.
C6_Witness ==
  /\ Normalized
  /\ buildIconIdSet(existingIcons) # AVAILABLE_ICON_IDS
  /\ \E i \in 1..Len(itemsOf(normalized)) :
       /\ isString(At(itemsOf(raw)[i], 1))
       /\ At(itemsOf(raw)[i], 1).s \notin buildIconIdSet(existingIcons)
       /\ itemsOf(normalized)[i].a[2].s # Block

ItemN(i) == <<"I","t","e","m"," ">> \o natToString(i)

\* C7: a raw item list of length N is normalized to N items, and item i of
\* the result is the repair of raw item i: its own trimmed name, or
\* "Item <i+1>" if it has none, and its own description.
C7_ItemCountAndOrderPreserved ==
  Normalized /\ isArray(Get(raw, "i")) =>
    /\ Len(itemsOf(normalized)) = Len(itemsOf(raw))
    /\ \A i \in 1..Len(itemsOf(raw)) :
         LET r == itemsOf(raw)[i]
             o == itemsOf(normalized)[i]
             named == isArray(r) /\ isString(At(r, 0)) /\ trim(At(r, 0).s) # <<>>
             nameless == ~isArray(r) \/ At(r, 0).k \in {"undefined", "null"}
                         \/ (isString(At(r, 0)) /\ trim(At(r, 0).s) = <<>>)
         IN /\ isArray(o) /\ Len(o.a) = 3 /\ \A j \in 1..3 : isString(o.a[j])
            /\ named => o.a[1].s = trim(At(r, 0).s)
            /\ nameless => o.a[1].s = ItemN(i)
            /\ isArray(r) /\ isString(At(r, 2)) => o.a[3].s = At(r, 2).s

\* A raw item list with a malformed entry in front of a well-formed one has
\* been normalized.
C7_Witness ==
  /\ Normalized /\ isArray(Get(raw, "i"))
  /\ \E i, j \in 1..Len(itemsOf(raw)) :
       /\ i < j
       /\ ~isArray(itemsOf(raw)[i])
       /\ isArray(itemsOf(raw)[j]) /\ isString(At(itemsOf(raw)[j], 0))
       /\ itemsOf(normalized)[j].a[1].s = trim(At(itemsOf(raw)[j], 0).s)

\* C8: normalizeCompactDiagram returns a diagram for every JSON value and
\* never raises an error.
C8_NormalizerTotal == normalized # TypeError

\* C9: the normalized diagram has as many views as the raw view list when
\* that is a non-empty array, and otherwise exactly one view, laid out as
\* the first view of an empty raw view; its view list is never empty.
C9_AtLeastOneView ==
  Normalized =>
    /\ Len(viewsOf(normalized)) >= 1
    /\ rawViewCount > 0 => Len(viewsOf(normalized)) = rawViewCount
    /\ rawViewCount = 0 =>
         /\ Len(viewsOf(normalized)) = 1
         /\ Len(positionsOf(viewsOf(normalized)[1])) = Len(itemsOf(normalized))
         /\ connectionsOf(viewsOf(normalized)[1]) = <<>>

\* A payload with items and no usable view list has been normalized.
C9_Witness ==
  /\ Normalized
  /\ rawViewCount = 0
  /\ Len(itemsOf(normalized)) > 0

EmptyObject == Obj(<<>>, <<>>)
NoItemsPayload == Obj(<<"t", "i">>, <<Str(<<"x">>), Arr(<<>>)>>)
OneElementItemPayload == Obj(<<"t", "i">>, <<Str(<<"x">>), Arr(<<Arr(<<Str(<<"A">>)>>)>>)>>)
BlankIconPayload == Obj(<<"t", "i">>, <<Str(<<"x">>), Arr(<<Arr(<<Str(<<"A">>), Str(<<>>)>>)>>)>>)

\* C10 as stated: {} is rejected with the missing-title error, an empty item
\* list with the empty-items error, and item 0 = ["A"] with the error
\* naming the missing icon of item 0.
C10_MinimalViolationsAsStated ==
  verdict # NotValidated =>
    /\ raw = EmptyObject => verdict = Rejected(NoTitle, -1, -1)
    /\ raw = NoItemsPayload => verdict = Rejected(NoItems, -1, -1)
    /\ raw = OneElementItemPayload => verdict = Rejected(ItemIcon, 0, -1)

\* C10 amended: {} is rejected with the missing-title error, an empty item
\* list with the empty-items error, item 0 = ["A"] with the item-shape error
\* of item 0, and item 0 = ["A", ""] with the missing-icon error of item 0.
C10_MinimalViolations ==
  verdict # NotValidated =>
    /\ raw = EmptyObject => verdict = Rejected(NoTitle, -1, -1)
    /\ raw = NoItemsPayload => verdict = Rejected(NoItems, -1, -1)
    /\ raw = OneElementItemPayload => verdict = Rejected(ItemShape, 0, -1)
    /\ raw = BlankIconPayload => verdict = Rejected(ItemIcon, 0, -1)

\* The payload whose item 0 is ["A"] has been validated.
C10_Witness == verdict # NotValidated /\ raw = OneElementItemPayload

\* A check of the validator is ranked <<stage, index, step, entry, kind>>:
\* r1 comes before r2 in the validator's order
Before(r1, r2) ==
  \E k \in 1..5 : r1[k] < r2[k] /\ \A j \in 1..(k - 1) : r1[j] = r2[j]

Violation(rank, thrown) == [rank |-> rank, error |-> thrown]

\* Every check the payload fails, each taken on its own, with its rank and
\* the error that names it
Violations(diagram) ==
  LET items == Get(diagram, "i")
      views == Get(diagram, "v")
      itemViolations(index) ==
        LET item == items.a[index + 1]
        IN {v \in {Violation(<<3, index, 0, 0, 0>>, Rejected(ItemShape, index, -1))} :
              ~isArray(item) \/ length(item) < 2}
           \cup
           {v \in {Violation(<<3, index, 1, 0, 0>>, Rejected(ItemName, index, -1))} :
              notNonBlankString(At(item, 0))}
           \cup
           {v \in {Violation(<<3, index, 2, 0, 0>>, Rejected(ItemIcon, index, -1))} :
              notNonBlankString(At(item, 1))}
           \cup
           {v \in {Violation(<<3, index, 3, 0, 0>>, Rejected(ItemDescription, index, -1))} :
              At(item, 2) # Undefined /\ ~isString(At(item, 2))}
      entryViolations(entries, viewIndex, step, size, shape, numbers) ==
        UNION {
          {v \in {Violation(<<5, viewIndex, step, e, 0>>, Rejected(shape, e, viewIndex))} :
             ~isArray(entries.a[e + 1]) \/ length(entries.a[e + 1]) < size}
          \cup
          {v \in {Violation(<<5, viewIndex, step, e, 1>>, Rejected(numbers, e, viewIndex))} :
             \E j \in 0..(size - 1) : At(entries.a[e + 1], j).k \notin {"number", "NaN"}}
          : e \in 0..(IF isArray(entries) THEN Len(entries.a) - 1 ELSE -1)}
      viewViolations(viewIndex) ==
        LET view == views.a[viewIndex + 1]
        IN {v \in {Violation(<<5, viewIndex, 0, 0, 0>>, Rejected(ViewShape, -1, viewIndex))} :
              ~isArray(view) \/ length(view) < 2}
           \cup
           {v \in {Violation(<<5, viewIndex, 1, 0, 0>>, Rejected(ViewParts, -1, viewIndex))} :
              ~isArray(At(view, 0)) \/ ~isArray(At(view, 1))}
           \cup entryViolations(At(view, 0), viewIndex, 2, 3, PositionShape, PositionNumbers)
           \cup entryViolations(At(view, 1), viewIndex, 3, 2, ConnectionShape, ConnectionNumbers)
  IN {v \in {Violation(<<0, 0, 0, 0, 0>>, Rejected(NotObject, -1, -1))} :
        diagram.k \notin {"object", "array"}}
     \cup
     {v \in {Violation(<<1, 0, 0, 0, 0>>, Rejected(NoTitle, -1, -1))} :
        ~isString(Get(diagram, "t")) \/ Get(diagram, "t").s = <<>>}
     \cup
     {v \in {Violation(<<2, 0, 0, 0, 0>>, Rejected(NoItems, -1, -1))} :
        ~isArray(items) \/ items.a = <<>>}
     \cup
     UNION {itemViolations(index) :
              index \in 0..(IF isArray(items) THEN Len(items.a) - 1 ELSE -1)}
     \cup
     {v \in {Violation(<<4, 0, 0, 0, 0>>, Rejected(NoViews, -1, -1))} : ~isArray(views)}
     \cup
     UNION {viewViolations(viewIndex) :
              viewIndex \in 0..(IF isArray(views) THEN Len(views.a) - 1 ELSE -1)}

\* C11: the validator accepts exactly the payloads that fail no check, and
\* the single error it raises for any other payload is the error of the
\* failed check that comes first in the order object, title, items
\* non-empty, each item in index order (shape, name, icon, description),
\* views is an array, each view in index order (shape, parts, positions in
\* order, connections in order); no failed check comes before it.
C11_FailFastOrder ==
  verdict # NotValidated =>
    /\ verdict = Accepted <=> Violations(raw) = {}
    /\ verdict # Accepted =>
         \E first \in Violations(raw) :
           /\ verdict = first.error
           /\ \A other \in Violations(raw) : ~Before(other.rank, first.rank)

\* A payload that fails several checks of one item, and a check of a later
\* stage as well, has been rejected.
C11_Witness ==
  /\ verdict # NotValidated /\ ~verdict.ok
  /\ \E v, w, x \in Violations(raw) :
       /\ v.error = verdict /\ v.rank[1] = 3
       /\ w.rank[1] = 3 /\ w.rank[2] = v.rank[2] /\ Before(v.rank, w.rank)
       /\ x.rank[1] > 3

\* The object, title, item and views-array checks all pass
ViewsReached ==
  \A v \in Violations(raw) : v.rank[1] = 5

\* A raw view of the shape the claim asks for
WellShapedView(view) ==
  isArray(view) /\ length(view) = 2 /\ isArray(At(view, 0)) /\ isArray(At(view, 1))

\* C12: the validator accepts a payload only if every view is a 2-element
\* array whose two elements are arrays; when the checks before the views
\* pass and some view is not an array, has fewer or more than 2 elements, or
\* has a first or second element that is no array, the payload is rejected
\* with an error naming a view index no later than the first such view.
C12_ViewShape ==
  verdict # NotValidated /\ ViewsReached =>
    LET views == Get(raw, "v").a
        bad == {i \in 1..Len(views) : ~WellShapedView(views[i])}
    IN /\ verdict.ok => bad = {}
       /\ bad # {} =>
            /\ ~verdict.ok
            /\ verdict.viewIndex >= 0
            /\ \A i \in bad : verdict.viewIndex <= i - 1

\* A raw position entry that names item index `index` with coordinates: an
\* array of an index and two coordinates that all coerce to finite numbers
NamesItem(pos, index) ==
  /\ isArray(pos) /\ length(pos) >= 3
  /\ \A j \in 0..2 : ~toPrimitiveThrows(At(pos, j)) /\ isFinite(Number(At(pos, j)))
  /\ Number(At(pos, 0)) = index

\* The item indices in range for `count` items, as the code compares them
InRangeIndices(count) == {Num(twice) : twice \in 0..(2 * count - 1)}

\* C16: when raw position entries of one view name the same in-range item
\* index, the normalized view holds one position for that item, and it has
\* the (rounded) coordinates of the first of those entries in list order;
\* this holds in the first view and in every later view.
C16_FirstPlacementWins ==
  Normalized =>
    \A i \in 1..rawViewCount :
      \A index \in InRangeIndices(Len(itemsOf(normalized))) :
        LET naming == {p \in 1..Len(rawPositionsAt(i)) :
                         NamesItem(rawPositionsAt(i)[p], index)}
            kept == {k \in 1..Len(positionsOf(viewsOf(normalized)[i])) :
                       itemIndexOf(positionsOf(viewsOf(normalized)[i])[k]) = index}
        IN naming # {} =>
             LET first == rawPositionsAt(i)[CHOOSE p \in naming : \A q \in naming : p <= q]
             IN /\ Cardinality(kept) = 1
                /\ \A k \in kept :
                     positionsOf(viewsOf(normalized)[i])[k] =
                       Arr(<<index, round(Number(At(first, 1))),
                             round(Number(At(first, 2)))>>)

\* Two raw entries of one view name the same item with different
\* coordinates, and the payload has been normalized.
C16_Witness ==
  /\ Normalized
  /\ \E i \in 1..rawViewCount :
       \E index \in InRangeIndices(Len(itemsOf(normalized))) :
         \E p, q \in 1..Len(rawPositionsAt(i)) :
           /\ p < q
           /\ NamesItem(rawPositionsAt(i)[p], index)
           /\ NamesItem(rawPositionsAt(i)[q], index)
           /\ round(Number(At(rawPositionsAt(i)[p], 1))) #
                round(Number(At(rawPositionsAt(i)[q], 1)))

\* A raw connection entry the claim keeps: a 2-element array whose elements
\* both coerce to finite numbers inside [0, count)
TwoValidIndices(conn, count) ==
  /\ isArray(conn) /\ length(conn) = 2
  /\ \A j \in 0..1 :
       /\ ~toPrimitiveThrows(At(conn, j))
       /\ Number(At(conn, j)) \in InRangeIndices(count)

\* C17: the connection list of each normalized view is, in the original
\* order, the raw entries of that view that are 2-element arrays whose two
\* elements coerce to finite numbers inside [0, itemCount), self-loops and
\* repeated entries included, each as [fromIndex, toIndex]; every other
\* entry, [0, 7] with 3 items among them, is dropped, whatever the view's
\* position list is.
C17_ConnectionFilter ==
  Normalized =>
    \A i \in 1..rawViewCount :
      LET count == Len(itemsOf(normalized))
          keep(conn) == TwoValidIndices(conn, count)
          kept == SelectSeq(rawConnectionsAt(i), keep)
      IN connectionsOf(viewsOf(normalized)[i]) =
           [k \in 1..Len(kept) |->
              Arr(<<Number(At(kept[k], 0)), Number(At(kept[k], 1))>>)]

\* The raw view i with the position entries that are not 3-element arrays
\* taken out
ThreeElementEntriesOnly(i) ==
  LET threeElements(pos) == isArray(pos) /\ length(pos) = 3
  IN Arr(<<Arr(SelectSeq(rawPositionsAt(i), threeElements)),
           Arr(rawConnectionsAt(i))>>)

\* C18: every raw position entry that is not a 3-element array is skipped:
\* each normalized view is the view its raw view normalizes to once those
\* entries are taken out, so only entries of exactly three elements
\* contribute a placement.
C18_PositionEntryShape ==
  Normalized =>
    \A i \in 1..rawViewCount :
      viewsOf(normalized)[i] =
        normalizeView(ThreeElementEntriesOnly(i), Len(itemsOf(normalized)), i = 1)

\* C19: a normalized view at index >= 1 holds one position for each in-range
\* item index its raw view names and no other position, so an item its raw
\* view does not name is absent from it; the view at index 0 holds a
\* position for every item, named or not.
C19_CoverageAsymmetry ==
  Normalized =>
    LET count == Len(itemsOf(normalized))
        named(i) == {index \in InRangeIndices(count) :
                       \E p \in 1..Len(rawPositionsAt(i)) :
                         NamesItem(rawPositionsAt(i)[p], index)}
        placed(i) == {itemIndexOf(positionsOf(viewsOf(normalized)[i])[k]) :
                        k \in 1..Len(positionsOf(viewsOf(normalized)[i]))}
    IN /\ \A i \in 2..rawViewCount :
            /\ placed(i) = named(i)
            /\ Len(positionsOf(viewsOf(normalized)[i])) = Cardinality(named(i))
       /\ {Whole(k) : k \in 0..(count - 1)} \subseteq placed(1)

\* A payload whose second raw view names some items and not others has been
\* normalized: its first view is filled up, its second view is not.
C19_Witness ==
  /\ Normalized
  /\ rawViewCount >= 2
  /\ Len(positionsOf(viewsOf(normalized)[2])) >= 1
  /\ Len(positionsOf(viewsOf(normalized)[2])) < Len(itemsOf(normalized))
  /\ Len(positionsOf(viewsOf(normalized)[1])) > Len(rawPositionsAt(1))

\* C20: for every icon the host registered (every entry of existingIcons
\* with an id, in whatever letter case), an item whose raw icon is that id
\* is given that same id by the normalizer, not an alias and not "block".
C20_HostIconsResolvable ==
  Normalized /\ isArray(existingIcons) =>
    \A h \in 1..Len(existingIcons.a) :
      truthy(Get(existingIcons.a[h], "id")) =>
        \A i \in 1..Len(itemsOf(normalized)) :
          At(itemsOf(raw)[i], 1) = Str(String(Get(existingIcons.a[h], "id"))) =>
            itemsOf(normalized)[i].a[2] = Str(String(Get(existingIcons.a[h], "id")))

\* A reply that is an HTTP error, an empty content, a text that is not one
\* JSON text, or the JSON text of a payload the validator rejects
FailingReply(reply) ==
  /\ reply.settled = "fulfilled"
  /\ \/ ~reply.ok
     \/ reply.content \in {Undefined, Null, Str(<<>>)}
     \/ /\ isString(reply.content)
        /\ LET texts == SelectSeq(reply.parts, LAMBDA part : part \notin {FenceJson, Fence})
           IN \/ Len(texts) # 1
              \/ ~texts[1].json
              \/ ~validateAICompactDiagram(texts[1].value).ok

\* C13: validation precedes use on the LLM path.  In every state the
\* generated diagram is null or a payload the validator accepts, and what
\* Apply-generated has normalized is a payload the validator accepts; and a
\* call that ends on an HTTP error, an empty content, an unparsable text or
\* a validator rejection leaves an error and no diagram.
C13_ValidationPrecedesUse ==
  /\ [](/\ generatedDiagram = Null \/ validateAICompactDiagram(generatedDiagram).ok
        /\ applied.via = "generated" => validateAICompactDiagram(applied.input).ok)
  /\ [][\A i \in 1..Len(requests) :
          EndsCall(i) /\ FailingReply(requests[i].reply)
            => error' # NoMessage /\ generatedDiagram' = Null]_vars

\* C13: Apply-generated has normalized a diagram the LLM returned, after a
\* call that failed
C13_Witness ==
  /\ applied.via = "generated"
  /\ generatedDiagram = Null
  /\ error # NoMessage

\* C14: at most one call of generateDiagramWithAI is pending at any time,
\* and isGenerating is true for as long as one is; no click on Generate or
\* Regenerate, Ctrl/Cmd+Enter, example prompt or tab switch starts a second.
C14_AtMostOneRequest ==
  /\ Len(requests) <= 1
  /\ requests # <<>> => isGenerating

\* C14: a call is pending, and since it was started the user has clicked an
\* example prompt and switched to another tab
C14_Witness ==
  /\ Len(requests) = 1
  /\ isGenerating
  /\ requests[1].prompt # prompt
  /\ prompt = ExamplePrompt
  /\ activeTab # "generate"

\* A reply whose content is, code fences apart, the JSON text of a payload
\* the validator accepts
SucceedingReply(reply) ==
  /\ reply.settled = "fulfilled" /\ reply.ok /\ isString(reply.content)
  /\ ~FailingReply(reply)

\* C15: the prior result is preserved.  The generated diagram and its
\* preview change only in the step that ends a call successfully: they stay
\* as they are while a call is pending and when a call fails.
C15_PriorResultPreserved ==
  [][generatedDiagram' # generatedDiagram \/ preview' # preview
       => \E i \in 1..Len(requests) :
            EndsCall(i) /\ SucceedingReply(requests[i].reply)]_vars

\* A step of one of the controls that call handleGenerate
GenerateAction == clickGenerate \/ pressCtrlEnter \/ clickRegenerate

\* C21: the API-key guard.  A Generate action with a blank prompt starts no
\* request, whatever the provider; with a non-blank prompt and an empty API
\* key it starts a request when the provider is ollama, and with any other
\* provider it starts none and sets the missing-key error.
C21_ApiKeyGuard ==
  [][GenerateAction =>
       /\ trim(prompt) = <<>> => UNCHANGED requests
       /\ trim(prompt) # <<>> /\ config.apiKey = <<>> /\ provider # "ollama"
            => UNCHANGED requests /\ error' = Message(ErrorNoApiKey)
       /\ trim(prompt) # <<>> /\ config.apiKey = <<>> /\ provider = "ollama"
            => Len(requests') = Len(requests) + 1]_vars

\* C21: a request is pending that was started for ollama with no API key
C21_Witness ==
  /\ Len(requests) = 1
  /\ isGenerating
  /\ provider = "ollama"
  /\ config.apiKey = <<>>
  /\ activeTab = "generate"

\* The raw first view places item i explicitly (its entries are arrays of
\* three integers)
Explicit(i) ==
  \E p \in 1..Len(rawPositionsAt(1)) : At(rawPositionsAt(1)[p], 0) = Whole(i)

\* The least c with c * c >= n, and 4 when that is less
GridColumns(n) ==
  LET root == CHOOSE c \in 0..n : c * c >= n /\ \A b \in 0..(c - 1) : b * b < n
  IN IF root > 4 THEN root ELSE 4

\* C22: the auto-layout grid.  With C = max(4, ceil(sqrt(itemCount))), the
\* item that is the k-th (from 0) of the items without an explicit position,
\* in increasing index order, is placed at (4 * (k mod C), 4 * floor(k / C));
\* explicitly placed items take no cell of the grid.
C22_AutoLayoutGrid ==
  Normalized =>
    LET N == Len(itemsOf(normalized))
        P == positionsOf(viewsOf(normalized)[1])
        C == GridColumns(N)
    IN \A i \in 0..(N - 1) :
         ~Explicit(i) =>
           LET k == Cardinality({j \in 0..(i - 1) : ~Explicit(j)})
           IN \E q \in 1..Len(P) :
                P[q] = Arr(<<Whole(i), Whole(4 * (k % C)), Whole(4 * (k \div C))>>)

\* C22: a normalized diagram of more than 16 items, hence more than four
\* columns, with an explicitly placed item before an item laid out in the
\* second row
C22_Witness ==
  /\ Normalized
  /\ Len(itemsOf(normalized)) > 16
  /\ Explicit(1)
  /\ \E q \in 1..Len(positionsOf(viewsOf(normalized)[1])) :
       LET entry == positionsOf(viewsOf(normalized)[1])[q]
       IN ~Explicit(entry.a[1].n \div 2) /\ entry.a[3] = Whole(4)

\* The (x, y) of a position entry
Coordinates(pos) == <<At(pos, 1), At(pos, 2)>>

\* C26 as stated: no coordinate overlap in the first view.  When the explicit raw
\* positions of the first view have pairwise distinct (x, y), the positions
\* of the normalized first view, explicit and laid out together, have
\* pairwise distinct (x, y).
C26_NoCoordinateOverlapAsStated ==
  (/\ Normalized
   /\ \A p, q \in 1..Len(rawPositionsAt(1)) :
        p # q => Coordinates(rawPositionsAt(1)[p]) # Coordinates(rawPositionsAt(1)[q]))
  => LET P == positionsOf(viewsOf(normalized)[1])
     IN \A p, q \in 1..Len(P) : p # q => Coordinates(P[p]) # Coordinates(P[q])

\* C26: the positions that autoLayoutPositions adds to the first view of a
\* normalized diagram have pairwise distinct (x, y); a position it adds may
\* coincide with an explicit one.
C26_NoCoordinateOverlap ==
  Normalized =>
    LET P == positionsOf(viewsOf(normalized)[1])
        LaidOut(p) == ~Explicit(itemIndexOf(P[p]).n \div 2)
    IN \A p, q \in 1..Len(P) :
         p # q /\ LaidOut(p) /\ LaidOut(q) => Coordinates(P[p]) # Coordinates(P[q])

\* C26: a normalized first view with a second row of laid-out items, one of
\* them on the place of an explicitly placed item whose raw places are
\* pairwise distinct
C26_Witness ==
  /\ Normalized
  /\ \A p, q \in 1..Len(rawPositionsAt(1)) :
       p # q => Coordinates(rawPositionsAt(1)[p]) # Coordinates(rawPositionsAt(1)[q])
  /\ LET P == positionsOf(viewsOf(normalized)[1])
     IN /\ \E p, q \in 1..Len(P) :
             /\ Explicit(itemIndexOf(P[p]).n \div 2)
             /\ ~Explicit(itemIndexOf(P[q]).n \div 2)
             /\ Coordinates(P[p]) = Coordinates(P[q])
        /\ \E q \in 1..Len(P) :
             ~Explicit(itemIndexOf(P[q]).n \div 2) /\ At(P[q], 2) = Whole(4)

\* The raw icon of the first raw item, trimmed and lower-cased
LoweredIcon == toLowerCase(trim(At(itemsOf(raw)[1], 1).s))

\* The alias table's entry for the lowered icon, <<>> when it has none
AliasTarget ==
  IF legacyLookup(replaceRuns(LoweredIcon, WhiteSpace \cup {"-"}, <<"_">>)) # <<>>
  THEN legacyLookup(replaceRuns(LoweredIcon, WhiteSpace \cup {"-"}, <<"_">>))
  ELSE legacyLookup(LoweredIcon)

\* A payload of one item whose icon is a string has been normalized
IconResolved ==
  /\ Normalized
  /\ isArray(Get(raw, "i")) /\ Len(itemsOf(raw)) = 1
  /\ isString(At(itemsOf(raw)[1], 1))

\* C23: icon resolution precedence, first match wins.  A blank raw icon
\* gives "block"; else the lowered value if it is a known icon, whatever the
\* alias table holds for it; else the alias target if known; else the
\* underscore-to-hyphen form if known; else the separator-stripped form if
\* known; else "block".
C23_IconPrecedence ==
  IconResolved =>
    LET known == buildIconIdSet(existingIcons)
        result == itemsOf(normalized)[1].a[2].s
        hyphenated == replaceAll(LoweredIcon, "_", <<"-">>)
        stripped == replaceRuns(LoweredIcon, WhiteSpace \cup Separators, <<>>)
        first == LoweredIcon # <<>> /\ LoweredIcon \in known
        second == LoweredIcon # <<>> /\ AliasTarget # <<>> /\ AliasTarget \in known
        third == LoweredIcon # <<>> /\ hyphenated \in known
        fourth == LoweredIcon # <<>> /\ stripped \in known
    IN /\ LoweredIcon = <<>> => result = Block
       /\ first => result = LoweredIcon
       /\ ~first /\ second => result = AliasTarget
       /\ ~first /\ ~second /\ third => result = hyphenated
       /\ ~first /\ ~second /\ ~third /\ fourth => result = stripped
       /\ ~first /\ ~second /\ ~third /\ ~fourth => result = Block

\* C23: a raw icon that is a known icon and also a key of the alias table,
\* with another target, has resolved to itself
C23_Witness ==
  /\ IconResolved
  /\ LoweredIcon \in buildIconIdSet(existingIcons)
  /\ AliasTarget \in buildIconIdSet(existingIcons)
  /\ AliasTarget # LoweredIcon
  /\ itemsOf(normalized)[1].a[2].s = LoweredIcon

\* C30: validated text survives normalization.  For a payload the
\* validator accepts, the normalized title is the payload's own title,
\* trimmed, and every normalized item name is the item's own name, trimmed;
\* neither "Untitled" nor "Item n" is put in its place.
C30_ValidatedTextSurvives ==
  verdict.ok /\ Normalized =>
    /\ Get(normalized, "t").s = trim(Get(raw, "t").s)
    /\ \A i \in 1..Len(itemsOf(raw)) :
         itemsOf(normalized)[i].a[1].s = trim(At(itemsOf(raw)[i], 0).s)

\* C29: the preview agrees with what is applied.  For a generated diagram
\* that Apply has handed on, the item count and the connector count that
\* generateDiagramSummary shows are the number of items and the number of
\* first-view connections of the normalized diagram.
C29_PreviewAgreesWithApplied ==
  applied.via = "generated" =>
    /\ Len(summaryItems(applied.input)) = Len(itemsOf(applied.data))
    /\ Len(summaryConnections(applied.input))
         = Len(connectionsOf(viewsOf(applied.data)[1]))

\* C27: the error banner and the success preview are mutually exclusive.
\* In every state of the dialog, error is non-null only if preview is empty
\* and generatedDiagram is null.
C27_ErrorExcludesPreview ==
  error # NoMessage => preview = <<>> /\ generatedDiagram = Null

\* C28: the JSON error is never stale.  Every step that changes jsonInput
\* (an edit, a successful Format, a generated diagram written over it)
\* leaves jsonError null.
C28_JsonErrorNeverStale ==
  [][jsonInput' # jsonInput => jsonError' = NoMessage]_vars

\* C25: generation always finishes.  Once fetch settles, a started request
\* leads to a state with isGenerating false, whatever the reply; and the
\* step that ends a call leaves error null and generatedDiagram set when the
\* reply is a valid diagram, and error set and generatedDiagram null when
\* the call fails.
C25_GenerationFinishes ==
  /\ isGenerating ~> ~isGenerating
  /\ [][\A i \in 1..Len(requests) :
          EndsCall(i) =>
            /\ ~isGenerating'
            /\ SucceedingReply(requests[i].reply)
                 => error' = NoMessage /\ generatedDiagram' # Null
            /\ ~SucceedingReply(requests[i].reply)
                 => error' # NoMessage /\ generatedDiagram' = Null]_vars

\* C25: a call that failed has ended, with the error set and isGenerating
\* false again
C25_Witness ==
  /\ ~isGenerating
  /\ requests = <<>>
  /\ error # NoMessage
  /\ error.text \in {ApiError, EmptyResponse, InvalidJson, FailedToFetch}
  /\ generatedDiagram = Null

\* C24: after every step of the dialog that changes the config (an edit of
\* a settings field or the choice of a provider preset), the config that
\* loadAIConfig reads back from local storage equals the dialog's config
C24_SettingsPersisted ==
  [][config' # config => loadAIConfig(storedConfig') = config']_vars

====
